---- MODULE Spec2Model ----
(***************************************************************************)
(* Model of the KubeTimr timing engine (timingEngine.ts): the pure         *)
(* transition functions over TimingEngineState, driven by an injectable    *)
(* monotonic clock.                                                        *)
(***************************************************************************)
EXTENDS Integers, Sequences, FiniteSets, TLC

(* ------------------------------------------------------------------ *)
(* Bounds of the model                                                *)
(* ------------------------------------------------------------------ *)

\* Number of onSolveComplete calls followed in one behaviour of the hook.
MaxCompleted == 2

\* Number of times the clock may advance in one behaviour.
MaxTicks == 3

\* Number of solves added to a session in one behaviour.
MaxAdded == 6

(* ------------------------------------------------------------------ *)
(* Program constants                                                  *)
(* ------------------------------------------------------------------ *)

\* Milliseconds added by a +2 penalty (applyPenaltyToDuration).
PLUS2_MS == 2000

\* Width of the inspection overage window that still yields +2
\* (computeInspectionPenalty).
OVERAGE_MS == 2000

\* Inspection duration the UI configures when inspection is enabled.
INSPECTION_DURATION_MS == 15000

\* Minimum hold before a release starts an attempt (useTimer).
HOLD_THRESHOLD_MS == 300

\* Inspection overage after which the polling tick forces a DNF (useTimer).
TIMEOUT_GRACE_MS == 2000

(* ------------------------------------------------------------------ *)
(* Types                                                              *)
(* ------------------------------------------------------------------ *)

\* enum Penalty { None = "none", Plus2 = "+2", DNF = "dnf" }
PenaltyNone == "none"
PenaltyPlus2 == "+2"
PenaltyDNF == "dnf"
Penalty == {PenaltyNone, PenaltyPlus2, PenaltyDNF}

\* type TimingState
TimingState == {"idle", "inspection", "running", "stopped"}

\* An optional field (`x?: T`, `T | null`) is the empty sequence when it is
\* absent and a one-element sequence when it is present.
Undefined == << >>
Null == << >>
Some(v) == << v >>
Val(o) == o[1]
IsNullish(o) == o = << >>

\* TimingEngineConfig: inspectionDurationMs, and the optional flag
\* enableInspectionPenalties (Undefined when the config omits it).
TimingEngineConfig(inspectionDurationMs, enableInspectionPenalties) ==
    [inspectionDurationMs |-> inspectionDurationMs,
     enableInspectionPenalties |-> enableInspectionPenalties]

\* The configurations explored: inspection off (0) or on (15000), with the
\* penalties flag true, false or omitted.
Configs ==
    { TimingEngineConfig(d, f) :
        d \in {0, INSPECTION_DURATION_MS},
        f \in {Some(TRUE), Some(FALSE), Undefined} }

\* Amounts by which the injected clock advances between two calls.
ClockSteps == {1, OVERAGE_MS, INSPECTION_DURATION_MS}

\* TimingResult
TimingResult(startTs, endTs, inspectionDurationMs, rawDurationMs, penalty, finalDurationMs) ==
    [startTs |-> startTs,
     endTs |-> endTs,
     inspectionDurationMs |-> inspectionDurationMs,
     rawDurationMs |-> rawDurationMs,
     penalty |-> penalty,
     finalDurationMs |-> finalDurationMs]

(* ------------------------------------------------------------------ *)
(* Factory                                                            *)
(* ------------------------------------------------------------------ *)

createTimingEngineState(config) ==
    [status |-> "idle",
     config |-> config,
     inspectionStartTs |-> Undefined,
     runStartTs |-> Undefined,
     runEndTs |-> Undefined,
     inspectionElapsedMs |-> 0,
     inspectionPenalty |-> PenaltyNone,
     manualPenalty |-> PenaltyNone,
     result |-> Undefined]

(* ------------------------------------------------------------------ *)
(* Helpers                                                            *)
(* ------------------------------------------------------------------ *)

\* Faulty variant: the first penalty wins whenever it is not None.
combinePenalties_FirstWins(a, b) ==
    IF a # PenaltyNone THEN a ELSE b

combinePenalties(a, b) ==
    IF \E p \in {a, b} : p = PenaltyDNF THEN PenaltyDNF
    ELSE IF \E p \in {a, b} : p = PenaltyPlus2 THEN PenaltyPlus2
    ELSE PenaltyNone

\* Faulty variant: +2 leaves the duration as it is.
applyPenaltyToDuration_NoPlus2(baseMs, penalty) ==
    IF penalty = PenaltyDNF THEN Null ELSE Some(baseMs)

applyPenaltyToDuration(baseMs, penalty) ==
    IF penalty = PenaltyDNF THEN Null
    ELSE IF penalty = PenaltyPlus2 THEN Some(baseMs + PLUS2_MS)
    ELSE Some(baseMs)

\* `!config.enableInspectionPenalties`: true for false and for an omitted flag.
FlagIsFalsy(config) ==
    \/ IsNullish(config.enableInspectionPenalties)
    \/ ~Val(config.enableInspectionPenalties)

\* Faulty variant: the upper end of the +2 window is exclusive.
computeInspectionPenalty_StrictOverage(inspectionElapsedMs, config) ==
    IF FlagIsFalsy(config) THEN PenaltyNone
    ELSE LET limit == config.inspectionDurationMs IN
         IF limit <= 0 THEN PenaltyNone
         ELSE IF inspectionElapsedMs <= limit THEN PenaltyNone
         ELSE IF inspectionElapsedMs < limit + OVERAGE_MS THEN PenaltyPlus2
         ELSE PenaltyDNF

computeInspectionPenalty(inspectionElapsedMs, config) ==
    IF FlagIsFalsy(config) THEN PenaltyNone
    ELSE LET limit == config.inspectionDurationMs IN
         IF limit <= 0 THEN PenaltyNone
         ELSE IF inspectionElapsedMs <= limit THEN PenaltyNone
         ELSE IF inspectionElapsedMs <= limit + OVERAGE_MS THEN PenaltyPlus2
         ELSE PenaltyDNF

(* ------------------------------------------------------------------ *)
(* Transitions (pure functions of the state and one clock reading)    *)
(* ------------------------------------------------------------------ *)

\* Faulty variant: a zero inspection duration still enters inspection.
startOrInspect_InspectsAtZero(s, t) ==
    IF s.config.inspectionDurationMs >= 0
    THEN [s EXCEPT !.status = "inspection",
                   !.inspectionStartTs = Some(t),
                   !.inspectionElapsedMs = 0,
                   !.inspectionPenalty = PenaltyNone,
                   !.manualPenalty = PenaltyNone,
                   !.runStartTs = Undefined,
                   !.runEndTs = Undefined,
                   !.result = Undefined]
    ELSE [s EXCEPT !.status = "running",
                   !.runStartTs = Some(t)]

\* Faulty variant: a new attempt keeps the result of the one before.
startOrInspect_KeepsResult(s, t) ==
    IF s.config.inspectionDurationMs > 0
    THEN [s EXCEPT !.status = "inspection",
                   !.inspectionStartTs = Some(t),
                   !.inspectionElapsedMs = 0,
                   !.inspectionPenalty = PenaltyNone,
                   !.manualPenalty = PenaltyNone,
                   !.runStartTs = Undefined,
                   !.runEndTs = Undefined]
    ELSE [s EXCEPT !.status = "running",
                   !.inspectionStartTs = Undefined,
                   !.inspectionElapsedMs = 0,
                   !.inspectionPenalty = PenaltyNone,
                   !.manualPenalty = PenaltyNone,
                   !.runStartTs = Some(t),
                   !.runEndTs = Undefined]

startOrInspect(s, t) ==
    IF s.config.inspectionDurationMs > 0
    THEN [s EXCEPT !.status = "inspection",
                   !.inspectionStartTs = Some(t),
                   !.inspectionElapsedMs = 0,
                   !.inspectionPenalty = PenaltyNone,
                   !.manualPenalty = PenaltyNone,
                   !.runStartTs = Undefined,
                   !.runEndTs = Undefined,
                   !.result = Undefined]
    ELSE [s EXCEPT !.status = "running",
                   !.inspectionStartTs = Undefined,
                   !.inspectionElapsedMs = 0,
                   !.inspectionPenalty = PenaltyNone,
                   !.manualPenalty = PenaltyNone,
                   !.runStartTs = Some(t),
                   !.runEndTs = Undefined,
                   !.result = Undefined]

startRunningFromInspection(s, t) ==
    IF s.status # "inspection" \/ IsNullish(s.inspectionStartTs) THEN s
    ELSE LET inspectionElapsedMs == t - Val(s.inspectionStartTs)
             inspectionPenalty ==
                 computeInspectionPenalty(inspectionElapsedMs, s.config)
         IN [s EXCEPT !.status = "running",
                      !.inspectionElapsedMs = inspectionElapsedMs,
                      !.inspectionPenalty = inspectionPenalty,
                      !.runStartTs = Some(t),
                      !.runEndTs = Undefined,
                      !.result = Undefined]

\* Faulty variant: the status guard is missing.
stopSolve_NoStatusGuard(s, t) ==
    IF IsNullish(s.runStartTs) THEN s
    ELSE LET rawDurationMs == t - Val(s.runStartTs)
             combinedPenalty ==
                 combinePenalties(s.inspectionPenalty, s.manualPenalty)
         IN [s EXCEPT !.status = "stopped",
                      !.runEndTs = Some(t),
                      !.result = Some(TimingResult(
                          Val(s.runStartTs), t, s.inspectionElapsedMs,
                          rawDurationMs, combinedPenalty,
                          applyPenaltyToDuration(rawDurationMs,
                                                 combinedPenalty)))]

stopSolve(s, t) ==
    IF s.status # "running" \/ IsNullish(s.runStartTs) THEN s
    ELSE LET rawDurationMs == t - Val(s.runStartTs)
             combinedPenalty ==
                 combinePenalties(s.inspectionPenalty, s.manualPenalty)
             finalDurationMs ==
                 applyPenaltyToDuration(rawDurationMs, combinedPenalty)
             timingResult ==
                 TimingResult(Val(s.runStartTs), t, s.inspectionElapsedMs,
                              rawDurationMs, combinedPenalty, finalDurationMs)
         IN [s EXCEPT !.status = "stopped",
                      !.runEndTs = Some(t),
                      !.result = Some(timingResult)]

\* Faulty variant: the final duration is derived from the previous final
\* duration instead of the raw duration.
applyManualPenalty_FromFinal(s, penalty) ==
    LET combinedPenalty == combinePenalties(s.inspectionPenalty, penalty)
    IN IF ~IsNullish(s.result)
       THEN LET r == Val(s.result)
                baseMs == IF IsNullish(r.finalDurationMs)
                          THEN r.rawDurationMs
                          ELSE Val(r.finalDurationMs)
            IN [s EXCEPT !.manualPenalty = penalty,
                         !.result = Some([r EXCEPT
                            !.penalty = combinedPenalty,
                            !.finalDurationMs =
                                applyPenaltyToDuration(baseMs,
                                                       combinedPenalty)])]
       ELSE [s EXCEPT !.manualPenalty = penalty]

\* Faulty variant: the combined penalty is also written back as the
\* inspection penalty.
applyManualPenalty_ClobbersInspection(s, penalty) ==
    LET combinedPenalty == combinePenalties(s.inspectionPenalty, penalty)
    IN IF ~IsNullish(s.result)
       THEN LET r == Val(s.result)
            IN [s EXCEPT !.manualPenalty = penalty,
                         !.inspectionPenalty = combinedPenalty,
                         !.result = Some([r EXCEPT
                            !.penalty = combinedPenalty,
                            !.finalDurationMs =
                                applyPenaltyToDuration(r.rawDurationMs,
                                                       combinedPenalty)])]
       ELSE [s EXCEPT !.manualPenalty = penalty]

applyManualPenalty(s, penalty) ==
    LET manualPenalty == penalty
        combinedPenalty == combinePenalties(s.inspectionPenalty, manualPenalty)
    IN IF ~IsNullish(s.result)
       THEN LET r == Val(s.result)
                finalDurationMs ==
                    applyPenaltyToDuration(r.rawDurationMs, combinedPenalty)
            IN [s EXCEPT !.manualPenalty = manualPenalty,
                         !.result = Some([r EXCEPT
                                            !.penalty = combinedPenalty,
                                            !.finalDurationMs = finalDurationMs])]
       ELSE [s EXCEPT !.manualPenalty = manualPenalty]

\* Faulty variant: a press while running starts over instead of stopping.
handleSpacebar_RestartsWhileRunning(s, t) ==
    CASE s.status \in {"idle", "stopped", "running"} -> startOrInspect(s, t)
      [] s.status = "inspection" -> startRunningFromInspection(s, t)
      [] OTHER -> s

handleSpacebar(s, t) ==
    CASE s.status \in {"idle", "stopped"} -> startOrInspect(s, t)
      [] s.status = "inspection" -> startRunningFromInspection(s, t)
      [] s.status = "running" -> stopSolve(s, t)
      [] OTHER -> s

isReadyToStart(s) == s.status = "idle" \/ s.status = "stopped"
isInspection(s) == s.status = "inspection"
isRunning(s) == s.status = "running"
isStopped(s) == s.status = "stopped"

(* ------------------------------------------------------------------ *)
(* State                                                              *)
(* ------------------------------------------------------------------ *)

VARIABLES
    state,       \* the TimingEngineState the caller holds
    now,         \* the latest reading timeSource.now() returned
    ticks,       \* how many times the clock has advanced
    lastOp,      \* the transition function called last
    lastArg,     \* its penalty argument (applyManualPenalty), else "none"
    prev,        \* the state that call was given
    stopResult,  \* the result the last effective stopSolve produced
    hook,        \* the useTimer hook around the engine state (see InitHook)
    session,     \* the session's solves and their statistics (see Session)
    splits,      \* phase definitions and a split capture (see Splits)
    app          \* the solves and captures of the AppContext (see App)

vars ==
    << state, now, ticks, lastOp, lastArg, prev, stopResult, hook, session,
       splits, app >>

\* The splits of a program that defines no phases and captures nothing.
NoSplits ==
    [definitions |-> << >>,
     capture |-> [solveId |-> "solve", phases |-> << >>],
     endTimestampMs |-> << >>,
     call |-> [op |-> "none", phase |-> "", timestampMs |-> 0,
               before |-> [solveId |-> "solve", phases |-> << >>]],
     changed |-> FALSE,
     normalized |-> [normalized |-> << >>, issues |-> << >>],
     validation |-> [ok |-> TRUE, issues |-> << >>],
     durations |-> << >>]

\* INITIAL_STATE of the AppContext: no solves, no captures, nothing
\* dispatched.
NoApp ==
    [solves |-> << >>,
     splits |-> << >>,
     engine |-> << >>,
     action |-> [type |-> "none", solveId |-> 0, penalty |-> "none"]]

\* The session as the timer sees it: it is the statistics engine's business.
NoSession == [solves |-> << >>, given |-> << >>, history |-> << >>,
              moXAo5 |-> Undefined, added |-> 0, stats |-> Undefined]

\* The useTimer hook on its first render with engine state s: `state` is the
\* value React holds for engineState (what setEngineState wrote last), and
\*   engineState       the value the callbacks of the current render closed over
\*   tickState         the value the running tick effect closed over
\*   frame             whether an animation frame for tick is scheduled
\*   keyDownRef, touchActiveRef, holdStartRef   the refs
\*   inspectionEnabled the option the hook was rendered with
\*   completed         the onSolveComplete calls made so far (result, and the
\*                     input that caused it)
\*   stopped           the results of the transitions into stopped so far
\*   observed          the inspection time the last handler measured, when it
\*                     was a tick during inspection
InitHook(s, inspectionEnabled) ==
    [engineState |-> s,
     tickState |-> s,
     frame |-> FALSE,
     keyDownRef |-> FALSE,
     touchActiveRef |-> FALSE,
     holdStartRef |-> Null,
     inspectionEnabled |-> inspectionEnabled,
     completed |-> << >>,
     stopped |-> << >>,
     observed |-> Null]

Init ==
    /\ \E c \in Configs : state = createTimingEngineState(c)
    /\ now = 0
    /\ ticks = 0
    /\ session = NoSession
    /\ splits = NoSplits
    /\ app = NoApp
    /\ lastOp = "createTimingEngineState"
    /\ lastArg = PenaltyNone
    /\ prev = state
    /\ stopResult = Undefined
    /\ hook = InitHook(state, state.config.inspectionDurationMs > 0)

\* The readings timeSource.now() may return next: the clock is monotonic, so
\* the previous reading or a later one.
Readings ==
    {now} \cup (IF ticks < MaxTicks THEN {now + d : d \in ClockSteps} ELSE {})

\* Bookkeeping shared by every call of a transition function: t is the clock
\* reading the call obtained (now itself when the call reads no clock).
Called(op, arg, t, next) ==
    /\ state' = next
    /\ now' = t
    /\ ticks' = IF t > now THEN ticks + 1 ELSE ticks
    /\ lastOp' = op
    /\ lastArg' = arg
    /\ prev' = state
    /\ stopResult' =
         IF next.status = "stopped" /\ state.status = "running"
         THEN next.result
         ELSE IF IsNullish(next.result) THEN Undefined
         ELSE stopResult
    /\ UNCHANGED << hook, session, splits, app >>

HandleSpacebar ==
    \E t \in Readings :
        Called("handleSpacebar", PenaltyNone, t, handleSpacebar(state, t))

StartOrInspect ==
    \E t \in Readings :
        Called("startOrInspect", PenaltyNone, t, startOrInspect(state, t))

StartRunningFromInspection ==
    \E t \in Readings :
        Called("startRunningFromInspection", PenaltyNone, t,
               startRunningFromInspection(state, t))

StopSolve ==
    \E t \in Readings :
        Called("stopSolve", PenaltyNone, t, stopSolve(state, t))

ApplyManualPenalty ==
    \E p \in Penalty :
        Called("applyManualPenalty", p, now, applyManualPenalty(state, p))

Next ==
    \/ HandleSpacebar
    \/ StartOrInspect
    \/ StartRunningFromInspection
    \/ StopSolve
    \/ ApplyManualPenalty

Spec == Init /\ [][Next]_vars

(* ------------------------------------------------------------------ *)
(* The useTimer hook (ui/index.ts; ui/hooks/useTimer.ts is the same    *)
(* hook without the touch handlers)                                   *)
(* ------------------------------------------------------------------ *)

\* The config the hook builds from its option.
hookConfig(inspectionEnabled) ==
    TimingEngineConfig(IF inspectionEnabled THEN INSPECTION_DURATION_MS ELSE 0,
                       Some(TRUE))

\* Amounts by which the clock advances between two handlers of the hook.
HookClockSteps ==
    {1, HOLD_THRESHOLD_MS, INSPECTION_DURATION_MS + TIMEOUT_GRACE_MS}

\* Clock readings a handler may obtain when the clock stood at t after k
\* advances. The statements of one handler run within one reading.
Later(t, k) ==
    {t} \cup (IF k < MaxTicks THEN {t + d : d \in HookClockSteps} ELSE {})
Advances(k, t0, t1) == IF t1 > t0 THEN k + 1 ELSE k

\* performance.now() when the hook mounts, some time after the time origin.
MountReadings == {1}

InitHookSpec ==
    /\ \E e \in BOOLEAN :
          /\ state = createTimingEngineState(hookConfig(e))
          /\ hook = InitHook(state, e)
    /\ now \in MountReadings
    /\ session = NoSession
    /\ splits = NoSplits
    /\ app = NoApp
    /\ ticks = 0
    /\ lastOp = "useTimer"
    /\ lastArg = PenaltyNone
    /\ prev = state
    /\ stopResult = Undefined

\* Bookkeeping of one handler: it read the clock last at t, left React's
\* engineState at next and the hook at h.
Handled(op, arg, t, next, h) ==
    /\ state' = next
    /\ hook' = IF op = "tick" THEN h ELSE [h EXCEPT !.observed = Null]
    /\ now' = t
    /\ ticks' = Advances(ticks, now, t)
    /\ lastOp' = op
    /\ lastArg' = arg
    /\ prev' = state
    /\ UNCHANGED << stopResult, session, splits, app >>

\* JavaScript truthiness of holdStartRef.current (number | null).
Truthy(ref) == ~IsNullish(ref) /\ Val(ref) # 0

\* The tick's test for the inspection timeout.
tickTimedOut(elapsed) == elapsed >= INSPECTION_DURATION_MS + TIMEOUT_GRACE_MS

\* A render with engine state s: the callbacks close over s; the tick effect
\* is torn down and set up again when one of its dependencies changed.
renderHook(h, s) ==
    LET deps(e) == << e.status, e.runStartTs, e.inspectionStartTs >>
        changed == deps(s) # deps(h.engineState)
    IN [h EXCEPT !.engineState = s,
                 !.tickState = IF changed THEN s ELSE @,
                 !.frame = IF changed
                           THEN s.status \in {"running", "inspection"}
                           ELSE @]

\* startHold: what it leaves in holdStartRef.
startHold(h, t) ==
    IF h.engineState.status \in {"idle", "stopped"}
    THEN [h EXCEPT !.holdStartRef = Some(t)]
    ELSE h

\* stopTimer: the value it passes to setEngineState (Null: none), and the
\* hook after its onSolveComplete call.
stopTimerState(h, t) ==
    IF h.engineState.status \in {"running", "inspection"}
    THEN Some(handleSpacebar(h.engineState, t))
    ELSE Null

stopTimer(h, t, via) ==
    LET newState == handleSpacebar(h.engineState, t) IN
    IF h.engineState.status = "running" /\ ~IsNullish(newState.result)
    THEN [h EXCEPT !.completed =
             Append(@, [result |-> Val(newState.result), via |-> via]),
                   !.stopped = Append(@, Val(newState.result))]
    ELSE h

\* A handler that calls stopTimer is followed only while fewer than
\* MaxCompleted onSolveComplete calls were made.
MayStop(h) ==
    h.engineState.status = "running" => Len(h.completed) < MaxCompleted

\* releaseHold: whether the release at reading t starts an attempt, the
\* value it then passes to setEngineState, and the hook it leaves.
releaseHoldStarts(h, t) ==
    /\ h.engineState.status \in {"idle", "stopped"}
    /\ (IF Truthy(h.holdStartRef) THEN t - Val(h.holdStartRef) ELSE 0)
          >= HOLD_THRESHOLD_MS

releaseHoldState(h, t) ==
    IF releaseHoldStarts(h, t)
    THEN Some(handleSpacebar(h.engineState, t))
    ELSE Null

releaseHold(h) ==
    IF h.engineState.status \in {"idle", "stopped"}
    THEN [h EXCEPT !.holdStartRef = Null]
    ELSE h

\* setEngineState(v) when v was passed, else the state stays.
Committed(v) == IF IsNullish(v) THEN state ELSE Val(v)

HandleKeyDown ==
    /\ ~hook.keyDownRef
    /\ MayStop(hook)
    /\ \E t \in Later(now, ticks) :
          LET h == [hook EXCEPT !.keyDownRef = TRUE] IN
          Handled("handleKeyDown", PenaltyNone, t,
                  Committed(stopTimerState(h, t)),
                  startHold(stopTimer(h, t, "key"), t))

HandleKeyUp ==
    \E t \in Later(now, ticks) :
        LET h == [hook EXCEPT !.keyDownRef = FALSE] IN
        Handled("handleKeyUp", PenaltyNone, t,
                Committed(releaseHoldState(h, t)),
                releaseHold(h))

HandleTouchStart ==
    /\ MayStop(hook)
    /\ \E t \in Later(now, ticks) :
          LET h == [hook EXCEPT !.touchActiveRef = TRUE] IN
          Handled("handleTouchStart", PenaltyNone, t,
                  Committed(stopTimerState(h, t)),
                  startHold(stopTimer(h, t, "touch"), t))

HandleTouchEnd ==
    /\ hook.touchActiveRef
    /\ \E t \in Later(now, ticks) :
          LET h == [hook EXCEPT !.touchActiveRef = FALSE] IN
          Handled("handleTouchEnd", PenaltyNone, t,
                  Committed(releaseHoldState(h, t)),
                  releaseHold(h))

HandleTouchCancel ==
    /\ hook.touchActiveRef
    /\ Handled("handleTouchCancel", PenaltyNone, now, state,
               [hook EXCEPT !.touchActiveRef = FALSE, !.holdStartRef = Null])

HandleBlur ==
    /\ hook.keyDownRef \/ hook.touchActiveRef
    /\ \E t \in Later(now, ticks) :
          LET h1 == [hook EXCEPT !.keyDownRef = FALSE]
              h2 == IF hook.keyDownRef THEN releaseHold(h1) ELSE hook
              h3 == IF hook.touchActiveRef
                    THEN [h2 EXCEPT !.touchActiveRef = FALSE,
                                    !.holdStartRef = Null]
                    ELSE h2
          IN Handled("handleBlur", PenaltyNone, t,
                     IF hook.keyDownRef
                     THEN Committed(releaseHoldState(h1, t))
                     ELSE state,
                     h3)

\* Faulty variant: the tick only ends the inspection.
tickForcedState_OnlyBeginsSolve(s, t) ==
    [handleSpacebar(s, t) EXCEPT !.result = Some(TimingResult(
         t, t, handleSpacebar(s, t).inspectionElapsedMs, 0,
         handleSpacebar(s, t).inspectionPenalty,
         applyPenaltyToDuration(0, handleSpacebar(s, t).inspectionPenalty)))]

\* The value the tick passes to setEngineState on the inspection timeout.
tickForcedState(s, t) ==
    LET newState == handleSpacebar(s, t)
        stoppedState == handleSpacebar(newState, t)
    IN applyManualPenalty(stoppedState, PenaltyDNF)

\* The animation-frame tick of the effect, reading the clock at t.
Tick ==
    /\ hook.frame
    /\ \E t \in Later(now, ticks) :
       LET s == hook.tickState
           inspecting == /\ ~(s.status = "running" /\ ~IsNullish(s.runStartTs))
                         /\ s.status = "inspection"
                         /\ ~IsNullish(s.inspectionStartTs)
           elapsed == t - Val(s.inspectionStartTs)
       IN IF inspecting /\ tickTimedOut(elapsed)
          THEN Handled("tick", PenaltyNone, t, tickForcedState(s, t),
                       [hook EXCEPT !.frame = FALSE,
                                    !.observed = Some(elapsed),
                                    !.stopped = Append(@,
                                        Val(tickForcedState(s, t).result))])
          ELSE Handled("tick", PenaltyNone, t, state,
                       [hook EXCEPT !.observed =
                            IF inspecting THEN Some(elapsed) ELSE Null])

\* React renders the hook with the engine state it holds.
Render ==
    /\ hook.engineState # state
    /\ hook' = renderHook(hook, state)
    /\ UNCHANGED << state, now, ticks, lastOp, lastArg, prev, stopResult,
                    session, splits, app >>

NextHook ==
    \/ HandleKeyDown
    \/ HandleKeyUp
    \/ HandleTouchStart
    \/ HandleTouchEnd
    \/ HandleTouchCancel
    \/ HandleBlur
    \/ Tick
    \/ Render

SpecHook == InitHookSpec /\ [][NextHook]_vars

(* ------------------------------------------------------------------ *)
(* The statistics engine (statsEngine.ts)                             *)
(* ------------------------------------------------------------------ *)

\* A number the statistics engine computes, as an exact fraction in lowest
\* terms (the code computes in double precision; the model leaves rounding
\* aside, so equal values are equal records).
RECURSIVE GCD(_, _)
GCD(a, b) == IF b = 0 THEN a ELSE GCD(b, a % b)
Number(n, d) == [num |-> n \div GCD(n, d), den |-> d \div GCD(n, d)]
Num(n) == Number(n, 1)
Plus(a, b) == Number((a.num * b.den) + (b.num * a.den), a.den * b.den)
GreaterThan(a, b) == a.num * b.den > b.num * a.den

\* A sort key: a finite number of milliseconds or Number.POSITIVE_INFINITY.
Finite(n) == [inf |-> FALSE, n |-> n]
POSITIVE_INFINITY == [inf |-> TRUE, n |-> 0]
isFinite(v) == ~v.inf

\* a - b < 0 for the comparator a.value - b.value; Infinity - Infinity is
\* NaN, which sort treats as +0.
NegativeDifference(a, b) == isFinite(a) /\ (~isFinite(b) \/ a.n < b.n)

\* A solve of the session, with the fields the statistics read.
Solve(id, createdAt, finalDurationMs) ==
    [id |-> id,
     createdAt |-> createdAt,
     timing |-> [finalDurationMs |-> finalDurationMs,
                 penalty |-> IF IsNullish(finalDurationMs)
                             THEN PenaltyDNF ELSE PenaltyNone]]

\* Array.prototype.sort is stable: e goes behind every element it is not
\* smaller than.
InsertByCreatedAt(sorted, e) ==
    LET k == Cardinality({i \in 1 .. Len(sorted) :
                             ~(e.createdAt < sorted[i].createdAt)})
    IN SubSeq(sorted, 1, k) \o << e >> \o SubSeq(sorted, k + 1, Len(sorted))

\* The first n solves, sorted.
RECURSIVE SortedByCreatedAt(_, _)
SortedByCreatedAt(solves, n) ==
    IF n = 0 THEN << >>
    ELSE InsertByCreatedAt(SortedByCreatedAt(solves, n - 1), solves[n])

sortSolvesChronologically(solves) == SortedByCreatedAt(solves, Len(solves))

extractDurations(solves) ==
    [i \in 1 .. Len(solves) |-> solves[i].timing.finalDurationMs]

\* values.reduce((a, b) => a + b, 0) over the first n values.
RECURSIVE SumOf(_, _)
SumOf(values, n) ==
    IF n = 0 THEN Num(0) ELSE Plus(SumOf(values, n - 1), values[n])

average(values) ==
    LET sum == SumOf(values, Len(values))
    IN Number(sum.num, sum.den * Len(values))

\* array.slice(start, end) for 0 <= start: the elements at the 0-based
\* positions start .. end - 1 that exist.
ArraySlice(array, start, end) ==
    SubSeq(array, start + 1, IF end < Len(array) THEN end ELSE Len(array))

\* Faulty variant: a DNF is left out of the mean instead of invalidating it.
computeMeanOf3Window_SkipsDnf(durations, start) ==
    LET slice == ArraySlice(durations, start, start + 3)
        indices == << start, start + 1, start + 2 >>
        timed == SelectSeq(slice, LAMBDA v : ~IsNullish(v))
        hasDnf == Len(timed) = 0
        valueMs == IF hasDnf THEN Null
                   ELSE Some(average([i \in 1 .. Len(timed) |->
                                         Num(Val(timed[i]))]))
    IN [result |-> [size |-> 3, valueMs |-> valueMs, indices |-> indices,
                    isDnf |-> hasDnf],
        contributingIndices |-> IF hasDnf THEN << >> ELSE indices]

\* Window results keep the code's 0-based indices into durations.
computeMeanOf3Window(durations, start) ==
    LET slice == ArraySlice(durations, start, start + 3)
        indices == << start, start + 1, start + 2 >>
        hasDnf == \E i \in 1 .. Len(slice) : IsNullish(slice[i])
        valueMs == IF hasDnf THEN Null
                   ELSE Some(average([i \in 1 .. Len(slice) |->
                                         Num(Val(slice[i]))]))
    IN [result |-> [size |-> 3, valueMs |-> valueMs, indices |-> indices,
                    isDnf |-> hasDnf],
        contributingIndices |-> IF hasDnf THEN << >> ELSE indices]

InsertByValue(sorted, e) ==
    LET k == Cardinality({i \in 1 .. Len(sorted) :
                             ~NegativeDifference(e.value, sorted[i].value)})
    IN SubSeq(sorted, 1, k) \o << e >> \o SubSeq(sorted, k + 1, Len(sorted))

\* The first n entries of the window, sorted.
RECURSIVE SortedByValue(_, _)
SortedByValue(window, n) ==
    IF n = 0 THEN << >>
    ELSE InsertByValue(SortedByValue(window, n - 1), window[n])

sortByValue(window) == SortedByValue(window, Len(window))

\* Faulty variant: the largest element is kept in the average.
computeTrimmedAverageWindow_KeepsWorst(durations, start, size) ==
    LET slice == ArraySlice(durations, start, start + size)
        window == [i \in 1 .. Len(slice) |->
                      [value |-> IF IsNullish(slice[i])
                                 THEN POSITIVE_INFINITY
                                 ELSE Finite(Val(slice[i])),
                       idx |-> start + i - 1]]
        sorted == sortByValue(window)
        contributing == SubSeq(sorted, 3, Len(sorted))
        hasDnf == \E i \in 1 .. Len(contributing) :
                     ~isFinite(contributing[i].value)
        valueMs == IF hasDnf THEN Null
                   ELSE Some(average([i \in 1 .. Len(contributing) |->
                                         Num(contributing[i].value.n)]))
        indices == [i \in 1 .. Len(contributing) |-> contributing[i].idx]
    IN [result |-> [size |-> size, valueMs |-> valueMs, indices |-> indices,
                    isDnf |-> hasDnf],
        contributingIndices |-> indices]

\* Faulty variant: the sum of the kept elements is divided by the size of
\* the window, as if the two trimmed elements had counted as zero.
computeTrimmedAverageWindow_DividesBySize(durations, start, size) ==
    LET slice == ArraySlice(durations, start, start + size)
        window == [i \in 1 .. Len(slice) |->
                      [value |-> IF IsNullish(slice[i])
                                 THEN POSITIVE_INFINITY
                                 ELSE Finite(Val(slice[i])),
                       idx |-> start + i - 1]]
        sorted == sortByValue(window)
        contributing == SubSeq(sorted, 2, Len(sorted) - 1)
        hasDnf == \E i \in 1 .. Len(contributing) :
                     ~isFinite(contributing[i].value)
        valueMs == IF hasDnf THEN Null
                   ELSE Some(average([i \in 1 .. Len(sorted) |->
                                         IF i \in 2 .. Len(sorted) - 1
                                         THEN Num(sorted[i].value.n)
                                         ELSE Num(0)]))
        indices == [i \in 1 .. Len(contributing) |-> contributing[i].idx]
    IN [result |-> [size |-> size, valueMs |-> valueMs, indices |-> indices,
                    isDnf |-> hasDnf],
        contributingIndices |-> indices]

computeTrimmedAverageWindow(durations, start, size) ==
    LET slice == ArraySlice(durations, start, start + size)
        window == [i \in 1 .. Len(slice) |->
                      [value |-> IF IsNullish(slice[i])
                                 THEN POSITIVE_INFINITY
                                 ELSE Finite(Val(slice[i])),
                       idx |-> start + i - 1]]
        sorted == sortByValue(window)
        contributing == SubSeq(sorted, 2, Len(sorted) - 1)
        hasDnf == \E i \in 1 .. Len(contributing) :
                     ~isFinite(contributing[i].value)
        valueMs == IF hasDnf THEN Null
                   ELSE Some(average([i \in 1 .. Len(contributing) |->
                                         Num(contributing[i].value.n)]))
        indices == [i \in 1 .. Len(contributing) |-> contributing[i].idx]
    IN [result |-> [size |-> size, valueMs |-> valueMs, indices |-> indices,
                    isDnf |-> hasDnf],
        contributingIndices |-> indices]

computeWindowAt(durations, start, mode, size) ==
    IF mode = "mo3" THEN computeMeanOf3Window(durations, start)
    ELSE computeTrimmedAverageWindow(durations, start, size)

\* Faulty variant: a history one short of the window already gets a result.
latestWindow_OneShort(durations, mode, size) ==
    IF Len(durations) < size - 1 THEN Null
    ELSE Some(computeWindowAt(durations,
                              IF Len(durations) < size THEN 0
                              ELSE Len(durations) - size,
                              mode, size).result)

latestWindow(durations, mode, size) ==
    IF Len(durations) < size THEN Null
    ELSE Some(computeWindowAt(durations, Len(durations) - size,
                              mode, size).result)

\* Faulty variant: a later window with an equal value replaces the best.
RECURSIVE bestWindowFrom_LatestOnTie(_, _, _, _, _)
bestWindowFrom_LatestOnTie(durations, mode, size, start, best) ==
    IF start > Len(durations) - size THEN best
    ELSE LET comp == computeWindowAt(durations, start, mode, size)
             better == \/ IsNullish(best)
                       \/ ~GreaterThan(Val(comp.result.valueMs),
                                       Val(Val(best).result.valueMs))
         IN IF IsNullish(comp.result.valueMs)
            THEN bestWindowFrom_LatestOnTie(durations, mode, size, start + 1,
                                            best)
            ELSE IF better
                 THEN bestWindowFrom_LatestOnTie(durations, mode, size,
                                                 start + 1, Some(comp))
                 ELSE bestWindowFrom_LatestOnTie(durations, mode, size,
                                                 start + 1, best)

\* The loop of bestWindow from offset start on, with best so far.
RECURSIVE bestWindowFrom(_, _, _, _, _)
bestWindowFrom(durations, mode, size, start, best) ==
    IF start > Len(durations) - size THEN best
    ELSE LET comp == computeWindowAt(durations, start, mode, size)
             better == \/ IsNullish(best)
                       \/ GreaterThan(Val(Val(best).result.valueMs),
                                      Val(comp.result.valueMs))
         IN IF IsNullish(comp.result.valueMs)
            THEN bestWindowFrom(durations, mode, size, start + 1, best)
            ELSE IF better
                 THEN bestWindowFrom(durations, mode, size, start + 1,
                                     Some(comp))
                 ELSE bestWindowFrom(durations, mode, size, start + 1, best)

\* Faulty variant: only the trailing window is looked at.
bestWindow_TrailingOnly(durations, mode, size) ==
    IF Len(durations) < size THEN Null
    ELSE bestWindowFrom(durations, mode, size, Len(durations) - size, Null)

\* Faulty variant: only the last three start offsets are looked at.
bestWindow_LastThreeOffsets(durations, mode, size) ==
    IF Len(durations) < size THEN Null
    ELSE bestWindowFrom(durations, mode, size,
                        IF Len(durations) - size < 2 THEN 0
                        ELSE Len(durations) - size - 2,
                        Null)

bestWindow(durations, mode, size) ==
    IF Len(durations) < size THEN Null
    ELSE bestWindowFrom(durations, mode, size, 0, Null)

computeAo5Series(durations) ==
    IF Len(durations) < 5 THEN << >>
    ELSE [k \in 1 .. Len(durations) - 4 |->
             computeTrimmedAverageWindow(durations, k - 1, 5).result]

\* slice.flatMap((r) => r.indices), over the first n results.
RECURSIVE FlatIndices(_, _)
FlatIndices(slice, n) ==
    IF n = 0 THEN << >>
    ELSE FlatIndices(slice, n - 1) \o slice[n].indices

flatMapIndices(slice) == FlatIndices(slice, Len(slice))

\* Faulty variant: only the newest Ao5 decides whether the mean is valid.
computeMoXAo5_NewestDecides(ao5Series, x) ==
    IF Len(ao5Series) < x \/ x <= 0 THEN Null
    ELSE LET start == Len(ao5Series) - x
             slice == ArraySlice(ao5Series, start, start + x)
             hasDnf == IsNullish(slice[Len(slice)].valueMs)
             valid == SelectSeq(slice, LAMBDA r : ~IsNullish(r.valueMs))
         IN Some([size |-> x,
                  valueMs |-> IF hasDnf THEN Null
                              ELSE Some(average([i \in 1 .. Len(valid) |->
                                                    Val(valid[i].valueMs)])),
                  indices |-> flatMapIndices(slice),
                  isDnf |-> hasDnf])

computeMoXAo5(ao5Series, x) ==
    IF Len(ao5Series) < x \/ x <= 0 THEN Null
    ELSE LET start == Len(ao5Series) - x
             slice == ArraySlice(ao5Series, start, start + x)
             hasDnf == \E i \in 1 .. Len(slice) : IsNullish(slice[i].valueMs)
         IN Some([size |-> x,
                  valueMs |-> IF hasDnf THEN Null
                              ELSE Some(average([i \in 1 .. Len(slice) |->
                                                    Val(slice[i].valueMs)])),
                  indices |-> flatMapIndices(slice),
                  isDnf |-> hasDnf])

buildTimeline(solves) ==
    [i \in 1 .. Len(solves) |->
        [solveId |-> solves[i].id,
         index |-> i - 1,
         finalDurationMs |-> solves[i].timing.finalDurationMs,
         penalty |-> solves[i].timing.penalty,
         createdAt |-> solves[i].createdAt]]

\* The list after addPbIfBetter; size is Undefined for the single.
\* Faulty variant: the entry to compare with is looked up without its type.
addPbIfBetter_AnyType(list, type, size, valueMs, solveIds, achievedAt) ==
    LET found == {i \in 1 .. Len(list) :
                     IsNullish(size) \/ IsNullish(list[i].size)
                         \/ list[i].size = size}
        next == [type |-> type, size |-> size, valueMs |-> valueMs,
                 solveIds |-> solveIds, achievedAt |-> achievedAt]
    IN IF found = {} THEN Append(list, next)
       ELSE LET idx == CHOOSE i \in found : \A j \in found : i <= j
            IN IF GreaterThan(list[idx].valueMs, valueMs)
               THEN [list EXCEPT ![idx] = next]
               ELSE list

addPbIfBetter(list, type, size, valueMs, solveIds, achievedAt) ==
    LET found == {i \in 1 .. Len(list) :
                     /\ list[i].type = type
                     /\ (IsNullish(size) \/ list[i].size = size)}
        next == [type |-> type, size |-> size, valueMs |-> valueMs,
                 solveIds |-> solveIds, achievedAt |-> achievedAt]
    IN IF found = {} THEN Append(list, next)
       ELSE LET idx == CHOOSE i \in found : \A j \in found : i <= j
            IN IF GreaterThan(list[idx].valueMs, valueMs)
               THEN [list EXCEPT ![idx] = next]
               ELSE list

\* The block computeSessionStats repeats for mo3, ao5 and ao12: the personal
\* bests after the best window of one kind has been looked at.
addWindowPb(list, solves, best, type, size) ==
    IF /\ ~IsNullish(best)
       /\ ~IsNullish(Val(best).result.valueMs)
       /\ Len(Val(best).contributingIndices) > 0
    THEN LET indices == Val(best).contributingIndices
             lastIndex == indices[Len(indices)]
         IN IF lastIndex + 1 \in 1 .. Len(solves)
            THEN addPbIfBetter(
                     list, type, Some(size), Val(Val(best).result.valueMs),
                     [k \in 1 .. Len(indices) |-> solves[indices[k] + 1].id],
                     solves[lastIndex + 1].createdAt)
            ELSE list
    ELSE list

\* Faulty variant: the caller's array is sorted in place.
solvesAfterStats_SortsInPlace(solvesInput) ==
    sortSolvesChronologically(solvesInput)

\* The caller's array after computeSessionStats(solvesInput, ...): the sort
\* works on the copy [...solves], and nothing else writes to an array.
solvesAfterStats(solvesInput) == solvesInput

\* options is the moXAo5 option: Undefined or Some(x).
computeSessionStats(solvesInput, moXAo5) ==
    LET solves == sortSolvesChronologically(solvesInput)
        durations == extractDurations(solves)
        timeline == buildTimeline(solves)
        validDurations == SelectSeq(durations, LAMBDA d : ~IsNullish(d))
        valid == {Val(validDurations[i]) : i \in 1 .. Len(validDurations)}
        bestMs == IF Len(validDurations) > 0
                  THEN Some(CHOOSE v \in valid : \A w \in valid : v <= w)
                  ELSE Null
        worstMs == IF Len(validDurations) > 0
                   THEN Some(CHOOSE v \in valid : \A w \in valid : v >= w)
                   ELSE Null
        meanMs == IF Len(validDurations) > 0
                  THEN Some(average([i \in 1 .. Len(validDurations) |->
                                        Num(Val(validDurations[i]))]))
                  ELSE Null
        truthy == ~IsNullish(moXAo5) /\ Val(moXAo5) # 0
        ao5Series == computeAo5Series(durations)
        moXAo5Result == IF truthy /\ Val(moXAo5) > 0
                        THEN computeMoXAo5(ao5Series, Val(moXAo5))
                        ELSE Null
        rolling ==
            [count |-> Len(durations),
             bestMs |-> bestMs,
             worstMs |-> worstMs,
             meanMs |-> meanMs,
             mo3 |-> latestWindow(durations, "mo3", 3),
             ao5 |-> latestWindow(durations, "trimmed", 5),
             ao12 |-> latestWindow(durations, "trimmed", 12),
             ao50 |-> latestWindow(durations, "trimmed", 50),
             ao100 |-> latestWindow(durations, "trimmed", 100),
             ao1000 |-> latestWindow(durations, "trimmed", 1000),
             moXAo5 |-> IF truthy
                        THEN Some([x |-> Val(moXAo5),
                                   result |-> moXAo5Result])
                        ELSE Undefined]
        bestIndex == CHOOSE i \in 1 .. Len(durations) :
                        /\ durations[i] = bestMs
                        /\ \A j \in 1 .. i - 1 : durations[j] # bestMs
        pbSingle == IF ~IsNullish(bestMs)
                    THEN addPbIfBetter(<< >>, "single", Undefined,
                                       Num(Val(bestMs)),
                                       << solves[bestIndex].id >>,
                                       solves[bestIndex].createdAt)
                    ELSE << >>
        pbMo3 == addWindowPb(pbSingle, solves,
                             bestWindow(durations, "mo3", 3), "mo3", 3)
        pbAo5 == addWindowPb(pbMo3, solves,
                             bestWindow(durations, "trimmed", 5), "ao5", 5)
        pbAo12 == addWindowPb(pbAo5, solves,
                              bestWindow(durations, "trimmed", 12), "ao12", 12)
        personalBests ==
            IF /\ truthy
               /\ ~IsNullish(moXAo5Result)
               /\ ~IsNullish(Val(moXAo5Result).valueMs)
               /\ Len(Val(moXAo5Result).indices) > 0
            THEN LET indices == Val(moXAo5Result).indices
                     lastIndex == indices[Len(indices)]
                 IN IF lastIndex + 1 \in 1 .. Len(solves)
                    THEN addPbIfBetter(
                             pbAo12, "custom", moXAo5,
                             Val(Val(moXAo5Result).valueMs),
                             [k \in 1 .. Len(indices) |->
                                 solves[indices[k] + 1].id],
                             solves[lastIndex + 1].createdAt)
                    ELSE pbAo12
            ELSE pbAo12
    IN [rolling |-> rolling, timeline |-> timeline,
        personalBests |-> personalBests]

(* ------------------------------------------------------------------ *)
(* A session: solves are added, the statistics are computed from them *)
(* ------------------------------------------------------------------ *)

\* finalDurationMs of the solves added in the model (null is a DNF).
AddedDurations == {Null, Some(10000), Some(30000)}

\* settings.moXAo5Value as handed to computeSessionStats: absent, or X.
MoXAo5Options == {Undefined, Some(2), Some(12)}

\* Histories a session starts from: none, the one of the Ao5 example, the
\* one of the tied single, and one with a DNF in front that is two solves
\* short of an Ao12.
TieHistory == << Some(12000), Some(11000), Some(11000) >>
ExampleHistory == << Some(10000), Some(20000), Some(30000), Some(40000),
                     Some(50000) >>
ShortHistory == << Null, Some(30000), Some(10000), Some(40000), Some(20000),
                   Some(20000), Some(50000), Some(10000), Some(30000),
                   Some(40000) >>

SeedHistories == {<< >>, ExampleHistory, TieHistory, ShortHistory}

\* A history that was imported: the array is not in the order of createdAt.
ImportedSolves ==
    << Solve(1, 4, Some(30000)), Solve(2, 2, Some(10000)), Solve(3, 5, Null),
       Solve(4, 1, Some(20000)), Solve(5, 3, Some(10000)) >>

\* The solves in the order of createdAt, solves with equal createdAt in the
\* order of the array.
ChronologicalOrder(solves) ==
    LET Before(i) == {j \in 1 .. Len(solves) :
                         \/ solves[j].createdAt < solves[i].createdAt
                         \/ /\ solves[j].createdAt = solves[i].createdAt
                            /\ j < i}
    IN [k \in 1 .. Len(solves) |->
           solves[CHOOSE i \in 1 .. Len(solves) :
                      Cardinality(Before(i)) = k - 1]]

\* The session after computeSessionStats was called with the array given:
\*   solves   the array the session holds, as the call left it
\*   given    the array as it was handed to the call
\*   history  the solves in chronological order
\*   added    how many solves were added in this behaviour
SessionOf(given, moXAo5, added) ==
    [solves |-> solvesAfterStats(given),
     given |-> given,
     history |-> ChronologicalOrder(given),
     moXAo5 |-> moXAo5,
     added |-> added,
     stats |-> computeSessionStats(given, moXAo5)]

\* Solves with the given durations, in chronological order.
SolvesOf(durations) ==
    [i \in 1 .. Len(durations) |-> Solve(i, i, durations[i])]

\* The session with the given durations, in chronological order.
Session(durations, moXAo5, added) ==
    SessionOf(SolvesOf(durations), moXAo5, added)

\* The arrays a session starts from.
SeedSolves == {SolvesOf(h) : h \in SeedHistories} \cup {ImportedSolves}

InitSession ==
    /\ \E x \in MoXAo5Options, given \in SeedSolves :
           session = SessionOf(given, x, 0)
    /\ splits = NoSplits
    /\ app = NoApp
    /\ state = createTimingEngineState(hookConfig(FALSE))
    /\ hook = InitHook(state, FALSE)
    /\ now = 0
    /\ ticks = 0
    /\ lastOp = "computeSessionStats"
    /\ lastArg = PenaltyNone
    /\ prev = state
    /\ stopResult = Undefined

\* ADD_SOLVE: the solve is appended, the statistics are recomputed.
AddSolve ==
    /\ session.added < MaxAdded
    /\ \E d \in AddedDurations :
          session' = SessionOf(Append(session.solves,
                                      Solve(Len(session.solves) + 1,
                                            Len(session.solves) + 1, d)),
                               session.moXAo5, session.added + 1)
    /\ UNCHANGED << state, now, ticks, lastOp, lastArg, prev, stopResult,
                    hook, splits, app >>

NextSession == AddSolve

SpecSession == InitSession /\ [][NextSession]_vars

(* ------------------------------------------------------------------ *)
(* Splits: phase definitions, captures and durations (splits.ts)       *)
(* ------------------------------------------------------------------ *)

\* String.prototype.trim on the phase names the model uses.
trim(name) ==
    CASE name = " A " -> "A"
      [] name = "  " -> ""
      [] OTHER -> name

SplitPhaseDefinition(name, order) == [name |-> name, order |-> order]

SplitInstance(phase, timestampMs) ==
    [phase |-> phase, timestampMs |-> timestampMs]

SplitCapture(solveId, phases) == [solveId |-> solveId, phases |-> phases]

PhaseValidationIssue(phase, message) == [phase |-> phase, message |-> message]

\* -Infinity, the start value of lastOrder and lastTs.
NEGATIVE_INFINITY == << >>

\* a < b and a <= b for a number a and a number or -Infinity b.
LessThan(a, b) == b # NEGATIVE_INFINITY /\ a < Val(b)
AtMost(a, b) == b # NEGATIVE_INFINITY /\ a <= Val(b)

\* new Map(entries) for a sequence of << key, value >> entries: a later
\* entry of a key replaces the earlier one.  Map.has is membership in the
\* DOMAIN, Map.get is application.
MapOf(entries) ==
    [k \in {entries[i][1] : i \in 1 .. Len(entries)} |->
        LET last == CHOOSE i \in 1 .. Len(entries) :
                        /\ entries[i][1] = k
                        /\ \A j \in 1 .. Len(entries) :
                               entries[j][1] = k => j <= i
        IN entries[last][2]]

\* Array.prototype.sort with a comparator that is the difference of two
\* keys: a stable sort by key.  Entries are [key, item] records.
InsertByKey(sorted, e) ==
    LET k == Cardinality({i \in 1 .. Len(sorted) : sorted[i].key <= e.key})
    IN SubSeq(sorted, 1, k) \o << e >> \o SubSeq(sorted, k + 1, Len(sorted))

RECURSIVE SortedByKey(_, _)
SortedByKey(keyed, n) ==
    IF n = 0 THEN << >>
    ELSE InsertByKey(SortedByKey(keyed, n - 1), keyed[n])

sortByKey(keyed) ==
    LET sorted == SortedByKey(keyed, Len(keyed))
    IN [i \in 1 .. Len(sorted) |-> sorted[i].item]

\* [...phases].sort((a, b) => a.order - b.order)
sortByOrder(phases) ==
    sortByKey([i \in 1 .. Len(phases) |->
                  [key |-> phases[i].order, item |-> phases[i]]])

\* The issues the loop of normalizePhaseDefinitions pushes for the first n
\* phases of byOrder: seenNames holds the names of the earlier phases and
\* lastOrder the order of the phase before.
RECURSIVE normalizeIssues(_, _)
normalizeIssues(byOrder, n) ==
    IF n = 0 THEN << >>
    ELSE LET p == byOrder[n]
             seenNames == {byOrder[i].name : i \in 1 .. n - 1}
             lastOrder == IF n = 1 THEN NEGATIVE_INFINITY
                          ELSE Some(byOrder[n - 1].order)
         IN normalizeIssues(byOrder, n - 1)
            \o (IF p.name \in seenNames
                THEN << PhaseValidationIssue(p.name, "Duplicate phase name") >>
                ELSE << >>)
            \o (IF AtMost(p.order, lastOrder)
                THEN << PhaseValidationIssue(p.name,
                            "Order must be strictly increasing") >>
                ELSE << >>)

normalizePhaseDefinitions(phases) ==
    LET trimmed == [i \in 1 .. Len(phases) |->
                       [phases[i] EXCEPT !.name = trim(phases[i].name)]]
        cleaned == SelectSeq(trimmed, LAMBDA p : p.name # "")
        byOrder == sortByOrder(cleaned)
    IN [normalized |-> byOrder,
        issues |-> normalizeIssues(byOrder, Len(byOrder))]

\* The loop of validateSplitInstances without the continue: an instance
\* of an undefined phase becomes the previous timestamp of the next one.
RECURSIVE validateFrom_UndefinedRecorded(_, _, _, _, _, _, _)
validateFrom_UndefinedRecorded(instances, defOrder, nameToIndex, i, lastIndex, lastTs, issues) ==
    IF i > Len(instances) THEN issues
    ELSE LET inst == instances[i] IN
         IF inst.phase \notin DOMAIN defOrder
         THEN validateFrom_UndefinedRecorded(instances, defOrder, nameToIndex,
                  i + 1, lastIndex, Some(inst.timestampMs),
                  Append(issues, PhaseValidationIssue(inst.phase,
                                     "Phase not defined")))
         ELSE LET idx == nameToIndex[inst.phase]
                  outOfOrder ==
                      IF idx < lastIndex
                      THEN << PhaseValidationIssue(inst.phase,
                                  "Phase out of order") >>
                      ELSE << >>
                  decreasing ==
                      IF LessThan(inst.timestampMs, lastTs)
                      THEN << PhaseValidationIssue(inst.phase,
                                  "Timestamps must be non-decreasing") >>
                      ELSE << >>
              IN validateFrom_UndefinedRecorded(instances, defOrder,
                     nameToIndex, i + 1, idx, Some(inst.timestampMs),
                     issues \o outOfOrder \o decreasing)

\* The loop of validateSplitInstances from instance i on.
RECURSIVE validateFrom(_, _, _, _, _, _, _)
validateFrom(instances, defOrder, nameToIndex, i, lastIndex, lastTs, issues) ==
    IF i > Len(instances) THEN issues
    ELSE LET inst == instances[i] IN
         IF inst.phase \notin DOMAIN defOrder
         THEN validateFrom(instances, defOrder, nameToIndex, i + 1,
                           lastIndex, lastTs,
                           Append(issues, PhaseValidationIssue(inst.phase,
                                              "Phase not defined")))
         ELSE LET idx == nameToIndex[inst.phase]
                  outOfOrder ==
                      IF idx < lastIndex
                      THEN << PhaseValidationIssue(inst.phase,
                                  "Phase out of order") >>
                      ELSE << >>
                  decreasing ==
                      IF LessThan(inst.timestampMs, lastTs)
                      THEN << PhaseValidationIssue(inst.phase,
                                  "Timestamps must be non-decreasing") >>
                      ELSE << >>
              IN validateFrom(instances, defOrder, nameToIndex, i + 1,
                              idx, Some(inst.timestampMs),
                              issues \o outOfOrder \o decreasing)

validateSplitInstances(definitions, instances) ==
    LET defOrder == MapOf([i \in 1 .. Len(definitions) |->
                              << definitions[i].name, definitions[i].order >>])
        sortedDefs == sortByOrder(definitions)
        nameToIndex == MapOf([i \in 1 .. Len(sortedDefs) |->
                                 << sortedDefs[i].name, i - 1 >>])
        issues == validateFrom(instances, defOrder, nameToIndex, 1, -1,
                               NEGATIVE_INFINITY, << >>)
    IN [ok |-> Len(issues) = 0, issues |-> issues]

\* Every order of the elements of array.
Orderings(array) ==
    {[i \in 1 .. Len(array) |-> array[f[i]]] :
        f \in {g \in [1 .. Len(array) -> 1 .. Len(array)] :
                  \A i, j \in 1 .. Len(array) : g[i] = g[j] => i = j}}

\* newPhases.sort((a, b) => order.get(a.phase)! - order.get(b.phase)!): the
\* results the sort can have.  A phase that is not in the map makes the
\* comparator return NaN, which is not a consistent comparator, and the
\* order of the result is then implementation-defined.
sortNewPhases(newPhases, order) ==
    IF \A i \in 1 .. Len(newPhases) : newPhases[i].phase \in DOMAIN order
    THEN {sortByKey([i \in 1 .. Len(newPhases) |->
                        [key |-> order[newPhases[i].phase],
                         item |-> newPhases[i]]])}
    ELSE Orderings(newPhases)

\* appendPhaseTimestamp without the comparison of the new timestamp with the
\* existing one: a captured phase always takes the new timestamp.
appendPhaseTimestamp_AlwaysReplaces(capture, definitions, phase, timestampMs) ==
    LET normalized == normalizePhaseDefinitions(definitions).normalized
        order == MapOf([i \in 1 .. Len(normalized) |->
                           << normalized[i].name, normalized[i].order >>])
        found == {i \in 1 .. Len(capture.phases) :
                     capture.phases[i].phase = phase}
        newPhases == Append(capture.phases, SplitInstance(phase, timestampMs))
    IN IF phase \notin DOMAIN order THEN {capture}
       ELSE IF found # {}
            THEN {[capture EXCEPT !.phases =
                      [i \in 1 .. Len(capture.phases) |->
                          IF capture.phases[i].phase = phase
                          THEN [capture.phases[i]
                                   EXCEPT !.timestampMs = timestampMs]
                          ELSE capture.phases[i]]]}
            ELSE {[capture EXCEPT !.phases = sorted] :
                     sorted \in sortNewPhases(newPhases, order)}

\* The captures appendPhaseTimestamp can return: one capture, unless the
\* order of the sort is implementation-defined.
appendPhaseTimestamp(capture, definitions, phase, timestampMs) ==
    LET normalized == normalizePhaseDefinitions(definitions).normalized
        order == MapOf([i \in 1 .. Len(normalized) |->
                           << normalized[i].name, normalized[i].order >>])
        found == {i \in 1 .. Len(capture.phases) :
                     capture.phases[i].phase = phase}
        existing == capture.phases[CHOOSE i \in found :
                                       \A j \in found : i <= j]
        newPhases == Append(capture.phases, SplitInstance(phase, timestampMs))
    IN IF phase \notin DOMAIN order THEN {capture}
       ELSE IF found # {}
            THEN IF timestampMs >= existing.timestampMs
                 THEN {[capture EXCEPT !.phases =
                           [i \in 1 .. Len(capture.phases) |->
                               IF capture.phases[i].phase = phase
                               THEN [capture.phases[i]
                                        EXCEPT !.timestampMs = timestampMs]
                               ELSE capture.phases[i]]]}
                 ELSE {capture}
            ELSE {[capture EXCEPT !.phases = sorted] :
                     sorted \in sortNewPhases(newPhases, order)}

\* The Record computePhaseDurations returns, as a function from its keys.
computePhaseDurations(options) ==
    LET definitions == options.definitions
        capture == options.capture
        endTimestampMs == options.endTimestampMs
        sortedDefs == sortByOrder(definitions)
        order == MapOf([i \in 1 .. Len(sortedDefs) |->
                           << sortedDefs[i].name, i - 1 >>])
        sortedInstances ==
            sortByKey([i \in 1 .. Len(capture.phases) |->
                          [key |-> IF capture.phases[i].phase \in DOMAIN order
                                   THEN order[capture.phases[i].phase]
                                   ELSE 0,
                           item |-> capture.phases[i]]])
        duration(i) ==
            LET current == sortedInstances[i]
                end == IF i < Len(sortedInstances)
                       THEN Some(sortedInstances[i + 1].timestampMs)
                       ELSE endTimestampMs
            IN IF ~IsNullish(end) /\ Val(end) >= current.timestampMs
               THEN Some(Val(end) - current.timestampMs)
               ELSE Null
    IN MapOf([i \in 1 .. Len(sortedInstances) |->
                 << sortedInstances[i].phase, duration(i) >>])

(* ------------------------------------------------------------------ *)
(* A capture under phase definitions                                   *)
(* ------------------------------------------------------------------ *)

\* The phase of the example of the durations, and phase lists that are out
\* of order, repeat a name or an order, or need trimming.
DefinitionLists ==
    {<< SplitPhaseDefinition("A", 1), SplitPhaseDefinition("B", 2),
        SplitPhaseDefinition("C", 3) >>,
     << SplitPhaseDefinition("A", 1), SplitPhaseDefinition("C", 3) >>,
     << SplitPhaseDefinition("C", 3), SplitPhaseDefinition("B", 1),
        SplitPhaseDefinition("A", 2) >>,
     << SplitPhaseDefinition("A", 1), SplitPhaseDefinition("A", 2) >>,
     << SplitPhaseDefinition("A", 1), SplitPhaseDefinition("B", 1) >>,
     << SplitPhaseDefinition(" A ", 1), SplitPhaseDefinition("  ", 2),
        SplitPhaseDefinition("B", 3) >>}

\* The phases a caller names; X is in no definition list.
PhaseNames == {"A", "B", "C", "X"}

Timestamps == {1000, 4000}

EndTimestamps == {Undefined, Some(3000), Some(9000)}

\* The splits with everything the program computes from them.
Splits(definitions, capture, endTimestampMs, call, changed) ==
    [definitions |-> definitions,
     capture |-> capture,
     endTimestampMs |-> endTimestampMs,
     call |-> call,
     changed |-> changed,
     normalized |-> normalizePhaseDefinitions(definitions),
     validation |-> validateSplitInstances(definitions, capture.phases),
     durations |-> computePhaseDurations(
                       [definitions |-> definitions, capture |-> capture,
                        endTimestampMs |-> endTimestampMs])]

InitSplits ==
    /\ \E definitions \in DefinitionLists, endTimestampMs \in EndTimestamps :
           splits = Splits(definitions, SplitCapture("solve", << >>),
                           endTimestampMs,
                           [op |-> "none", phase |-> "", timestampMs |-> 0,
                            before |-> SplitCapture("solve", << >>)],
                           FALSE)
    /\ session = NoSession
    /\ app = NoApp
    /\ state = createTimingEngineState(hookConfig(FALSE))
    /\ hook = InitHook(state, FALSE)
    /\ now = 0
    /\ ticks = 0
    /\ lastOp = "splits"
    /\ lastArg = PenaltyNone
    /\ prev = state
    /\ stopResult = Undefined

\* A phase timestamp is appended to the capture.
AppendPhaseTimestamp ==
    /\ \E phase \in PhaseNames, timestampMs \in Timestamps :
           \E capture \in appendPhaseTimestamp(splits.capture,
                              splits.definitions, phase, timestampMs) :
               splits' = Splits(splits.definitions, capture,
                                splits.endTimestampMs,
                                [op |-> "appendPhaseTimestamp",
                                 phase |-> phase,
                                 timestampMs |-> timestampMs,
                                 before |-> splits.capture],
                                splits.changed)
    /\ UNCHANGED << state, now, ticks, lastOp, lastArg, prev, stopResult,
                    hook, session, app >>

\* The phase definitions are edited while the capture stays.
ChangeDefinitions ==
    /\ \E definitions \in DefinitionLists \ {splits.definitions} :
           splits' = Splits(definitions, splits.capture,
                            splits.endTimestampMs,
                            [op |-> "definitions", phase |-> "",
                             timestampMs |-> 0, before |-> splits.capture],
                            TRUE)
    /\ UNCHANGED << state, now, ticks, lastOp, lastArg, prev, stopResult,
                    hook, session, app >>

NextSplits == AppendPhaseTimestamp \/ ChangeDefinitions

SpecSplits == InitSplits /\ [][NextSplits]_vars

(* ------------------------------------------------------------------ *)
(* AppContext: the solves and split captures of the application       *)
(* ------------------------------------------------------------------ *)

\* How many ids generateId() hands out in a behaviour.
MaxIds == 2

\* A Solve as the AppContext stores it. sessionId, puzzleId and scramble are
\* carried along by every reducer case below and read by none of them.
StoredSolve(id, timing, createdAt) ==
    [id |-> id, timing |-> timing, createdAt |-> createdAt]

\* Faulty variant: the penalty is stored, the final duration is kept.
applyPenaltyToTiming_KeepsDuration(timing, penalty) ==
    [timing EXCEPT !.penalty = penalty]

applyPenaltyToTiming(timing, penalty) ==
    LET finalDurationMs ==
            IF penalty = PenaltyDNF THEN Null
            ELSE IF penalty = PenaltyPlus2
                 THEN Some(timing.rawDurationMs + 2000)
                 ELSE Some(timing.rawDurationMs)
    IN [timing EXCEPT !.penalty = penalty,
                      !.finalDurationMs = finalDurationMs]

\* captures.findIndex((c) => c.solveId === solveId): the 0-based position
\* of the first capture of the solve, -1 when there is none.
findIndexBySolveId(captures, solveId) ==
    LET found == {i \in 1 .. Len(captures) : captures[i].solveId = solveId}
    IN IF found = {} THEN -1
       ELSE (CHOOSE i \in found : \A j \in found : i <= j) - 1

\* The cases of appReducer; s is the AppState (its solves and splits).
ADD_SOLVE(s, payload) ==
    [s EXCEPT !.solves = Append(s.solves, payload)]

ADD_SOLVES_BATCH(s, payload) ==
    [s EXCEPT !.solves = s.solves \o payload]

UPDATE_SOLVE_PENALTY(s, payload) ==
    [s EXCEPT !.solves =
        [i \in 1 .. Len(s.solves) |->
            LET solve == s.solves[i]
            IN IF solve.id = payload.solveId
               THEN [solve EXCEPT !.timing =
                        applyPenaltyToTiming(solve.timing, payload.penalty)]
               ELSE solve]]

\* Faulty variant: the captures are kept when the solve is deleted.
DELETE_SOLVE_KeepsSplits(s, payload) ==
    [s EXCEPT !.solves = SelectSeq(s.solves, LAMBDA x : x.id # payload)]

DELETE_SOLVE(s, payload) ==
    [s EXCEPT !.solves = SelectSeq(s.solves, LAMBDA x : x.id # payload),
              !.splits = SelectSeq(s.splits,
                                   LAMBDA c : c.solveId # payload)]

\* Faulty variant: the capture is appended whether or not the solve has one.
ADD_SPLIT_CAPTURE_AlwaysAppends(s, payload) ==
    [s EXCEPT !.splits = Append(s.splits, payload)]

ADD_SPLIT_CAPTURE(s, payload) ==
    LET existing == findIndexBySolveId(s.splits, payload.solveId)
    IN IF existing >= 0
       THEN [s EXCEPT !.splits = [s.splits EXCEPT ![existing + 1] = payload]]
       ELSE [s EXCEPT !.splits = Append(s.splits, payload)]

\* upsertCapture of splits.ts.
upsertCapture(captures, capture) ==
    LET idx == findIndexBySolveId(captures, capture.solveId)
    IN IF idx = -1 THEN Append(captures, capture)
       ELSE [captures EXCEPT ![idx + 1] = capture]

\* new Date().toISOString() at the time of the behaviour: later than every
\* date of an imported solve.
Today == 3

\* A solve of a csTimer export: time, penalty code and date, the last two
\* optional.
CSTimerSolveImport(time, penalty, date) ==
    [time |-> time, penalty |-> penalty, date |-> date]

\* String.prototype.toUpperCase on the penalty codes explored.
toUpperCase(code) == IF code = "dnf" THEN "DNF" ELSE code

\* The timing importCSTimerData builds for one solve of the export.
importedTiming(csSolve) ==
    LET baseTime == csSolve.time
        penaltyCode == IF IsNullish(csSolve.penalty) THEN "NONE"
                       ELSE toUpperCase(Val(csSolve.penalty))
        penalty == IF penaltyCode = "+2" THEN PenaltyPlus2
                   ELSE IF penaltyCode = "DNF" THEN PenaltyDNF
                   ELSE PenaltyNone
        finalDurationMs == IF penalty = PenaltyDNF THEN Null
                           ELSE IF penalty = PenaltyPlus2
                                THEN Some(baseTime + 2000)
                                ELSE Some(baseTime)
    IN TimingResult(0, baseTime, 0, baseTime, penalty, finalDurationMs)

\* The payload importCSTimerData dispatches for the solves of an export:
\* solves without a positive time are skipped, the others get the ids
\* firstId, firstId + 1, ... and are sorted by createdAt.
importCSTimerData(solves, firstId) ==
    LET kept == SelectSeq(solves, LAMBDA c : c.time > 0)
        newSolves ==
            [i \in 1 .. Len(kept) |->
                StoredSolve(firstId + i - 1, importedTiming(kept[i]),
                            IF IsNullish(kept[i].date) THEN Today
                            ELSE Val(kept[i].date))]
    IN sortSolvesChronologically(newSolves)

\* How long the inspection and the solve of an attempt take.
InspectionTimes == {1, INSPECTION_DURATION_MS + 1,
                    INSPECTION_DURATION_MS + OVERAGE_MS + 1}
SolveTimes == {1000}

\* The stopped engine states whose results the timer reports: an attempt
\* with inspection that was started and stopped by the user.
EngineStops ==
    { stopSolve(startRunningFromInspection(
                    startOrInspect(createTimingEngineState(hookConfig(TRUE)),
                                   0), i), i + d) :
        i \in InspectionTimes, d \in SolveTimes }

\* The exports explored: two solves each.
ImportedEntries ==
    { CSTimerSolveImport(0, Undefined, Some(1)),
      CSTimerSolveImport(1000, Some("+2"), Some(2)),
      CSTimerSolveImport(2500, Some("dnf"), Undefined),
      CSTimerSolveImport(1000, Undefined, Some(1)) }
Imports == {<< a, b >> : a \in ImportedEntries, b \in ImportedEntries}

\* The phases a capture records.
CapturedPhases ==
    { << SplitInstance("A", 1000) >>,
      << SplitInstance("A", 1000), SplitInstance("B", 4000) >> }

\* The ids of the solves the AppContext holds.
SolveIds(a) == {a.solves[i].id : i \in 1 .. Len(a.solves)}

\* The AppContext after an action was dispatched:
\*   solves, splits   state.solves and state.splits
\*   engine           for the n-th id generated, the engine state whose
\*                    result the solve was added with (Undefined for an
\*                    imported solve)
\*   action           the action dispatched last
App(s, engine, action) ==
    [solves |-> s.solves, splits |-> s.splits, engine |-> engine,
     action |-> action]

Action(type, solveId, penalty) ==
    [type |-> type, solveId |-> solveId, penalty |-> penalty]

InitApp ==
    /\ app = NoApp
    /\ session = NoSession
    /\ splits = NoSplits
    /\ state = createTimingEngineState(hookConfig(TRUE))
    /\ hook = InitHook(state, TRUE)
    /\ now = 0
    /\ ticks = 0
    /\ lastOp = "app"
    /\ lastArg = PenaltyNone
    /\ prev = state
    /\ stopResult = Undefined

Others == << state, now, ticks, lastOp, lastArg, prev, stopResult, hook,
             session, splits >>

\* addSolve: the result of the engine is stored under a fresh id.
AppAddSolve ==
    /\ Len(app.engine) < MaxIds
    /\ \E stop \in EngineStops :
          LET id == Len(app.engine) + 1
              solve == StoredSolve(id, Val(stop.result), Today)
          IN app' = App(ADD_SOLVE(app, solve),
                        Append(app.engine, Some(stop)),
                        Action("ADD_SOLVE", id, PenaltyNone))
    /\ UNCHANGED Others

\* importCSTimerData: the solves of an export are stored under fresh ids.
AppImportCSTimerData ==
    /\ \E data \in Imports :
          LET newSolves == importCSTimerData(data, Len(app.engine) + 1)
          IN /\ Len(newSolves) > 0
             /\ Len(app.engine) + Len(newSolves) <= MaxIds
             /\ app' = App(ADD_SOLVES_BATCH(app, newSolves),
                           app.engine \o [i \in 1 .. Len(newSolves) |->
                                             Undefined],
                           Action("ADD_SOLVES_BATCH", 0, PenaltyNone))
    /\ UNCHANGED Others

\* updateSolvePenalty for a solve of the list.
AppUpdateSolvePenalty ==
    /\ \E solveId \in SolveIds(app), penalty \in Penalty :
          app' = App(UPDATE_SOLVE_PENALTY(app, [solveId |-> solveId,
                                                penalty |-> penalty]),
                     app.engine,
                     Action("UPDATE_SOLVE_PENALTY", solveId, penalty))
    /\ UNCHANGED Others

\* deleteSolve for a solve of the list.
AppDeleteSolve ==
    /\ \E solveId \in SolveIds(app) :
          app' = App(DELETE_SOLVE(app, solveId), app.engine,
                     Action("DELETE_SOLVE", solveId, PenaltyNone))
    /\ UNCHANGED Others

\* addSplitCapture for a solve of the list.
AppAddSplitCapture ==
    /\ \E solveId \in SolveIds(app), phases \in CapturedPhases :
          app' = App(ADD_SPLIT_CAPTURE(app, SplitCapture(solveId, phases)),
                     app.engine,
                     Action("ADD_SPLIT_CAPTURE", solveId, PenaltyNone))
    /\ UNCHANGED Others

\* upsertCapture applied to the list of captures, for a solve of the list.
UpsertCapture ==
    /\ \E solveId \in SolveIds(app), phases \in CapturedPhases :
          app' = App([app EXCEPT !.splits =
                         upsertCapture(app.splits,
                                       SplitCapture(solveId, phases))],
                     app.engine,
                     Action("upsertCapture", solveId, PenaltyNone))
    /\ UNCHANGED Others

NextApp ==
    \/ AppAddSolve
    \/ AppImportCSTimerData
    \/ AppUpdateSolvePenalty
    \/ AppDeleteSolve
    \/ AppAddSplitCapture
    \/ UpsertCapture

SpecApp == InitApp /\ [][NextApp]_vars

(* ------------------------------------------------------------------ *)
(* Properties of the timing engine                                    *)
(* ------------------------------------------------------------------ *)

HasResult(s) == ~IsNullish(s.result)

\* Dominance order DNF > Plus2 > None, stated independently of the code.
Rank(p) == CASE p = PenaltyNone -> 0 [] p = PenaltyPlus2 -> 1 [] p = PenaltyDNF -> 2
Severest(a, b) == IF Rank(a) >= Rank(b) THEN a ELSE b

\* The engine status changed from `from` to `to` in the last call.
Moved(from, to) == prev.status = from /\ state.status = to

\* C1: in every reachable state with a result, finalDurationMs is null iff
\* the penalty is DNF, is rawDurationMs + 2000 iff the penalty is Plus2, and
\* is rawDurationMs iff the penalty is None.
C1_FinalDurationMatchesPenalty ==
    HasResult(state) =>
        LET r == Val(state.result) IN
        /\ (r.finalDurationMs = Null) <=> (r.penalty = PenaltyDNF)
        /\ (r.finalDurationMs = Some(r.rawDurationMs + 2000))
               <=> (r.penalty = PenaltyPlus2)
        /\ (r.finalDurationMs = Some(r.rawDurationMs))
               <=> (r.penalty = PenaltyNone)

\* A manual +2 has just been applied to a result that had no penalty and a
\* positive raw duration.
C1_Witness ==
    /\ lastOp = "applyManualPenalty"
    /\ lastArg = PenaltyPlus2
    /\ HasResult(prev)
    /\ Val(prev.result).penalty = PenaltyNone
    /\ HasResult(state)
    /\ Val(state.result).rawDurationMs > 0
    /\ Val(state.result).penalty = PenaltyPlus2

\* C2: a handleSpacebar call moves the status along exactly one of the edges
\* idle/stopped -> inspection (inspectionDurationMs > 0), idle/stopped ->
\* running (otherwise), inspection -> running, running -> stopped.
C2_HandleSpacebarEdges ==
    lastOp = "handleSpacebar" =>
        LET d == prev.config.inspectionDurationMs IN
        \/ /\ prev.status \in {"idle", "stopped"}
           /\ d > 0
           /\ state.status = "inspection"
        \/ /\ prev.status \in {"idle", "stopped"}
           /\ ~(d > 0)
           /\ state.status = "running"
        \/ Moved("inspection", "running")
        \/ Moved("running", "stopped")

\* handleSpacebar has just stopped a running solve.
C2_Witness ==
    /\ lastOp = "handleSpacebar"
    /\ Moved("running", "stopped")
    /\ HasResult(state)

\* C3: startRunningFromInspection outside inspection, and stopSolve outside
\* running, return the state they were given, equal in every field.
C3_InvalidTransitionsAreNoOps ==
    /\ (lastOp = "startRunningFromInspection" /\ prev.status # "inspection")
           => state = prev
    /\ (lastOp = "stopSolve" /\ prev.status # "running")
           => state = prev

\* stopSolve was called again on a stopped solve, later than the stop.
C3_Witness ==
    /\ lastOp = "stopSolve"
    /\ prev.status = "stopped"
    /\ HasResult(prev)
    /\ now > Val(prev.runEndTs)
    /\ state = prev

\* C4: startOrInspect called in inspection or running returns the state
\* unchanged, so inspectionStartTs and runStartTs are not overwritten.
C4_StartOnlyFromIdleOrStopped ==
    (lastOp = "startOrInspect" /\ prev.status \in {"inspection", "running"})
        => /\ state = prev
           /\ state.inspectionStartTs = prev.inspectionStartTs
           /\ state.runStartTs = prev.runStartTs

\* C5: applyManualPenalty called while no result exists leaves the state
\* unchanged, and the result stopSolve then produces carries the inspection
\* penalty alone.
C5_ManualPenaltyNeedsResult ==
    /\ (lastOp = "applyManualPenalty" /\ ~HasResult(prev)) => state = prev
    /\ (lastOp \in {"stopSolve", "handleSpacebar"}
            /\ Moved("running", "stopped"))
           => Val(state.result).penalty = state.inspectionPenalty

\* The last call left inspection for running under a configuration with a
\* positive inspection limit and inspection penalties enabled.
BeganSolveWithPenalties ==
    /\ lastOp \in {"startRunningFromInspection", "handleSpacebar"}
    /\ Moved("inspection", "running")
    /\ prev.config.inspectionDurationMs > 0
    /\ prev.config.enableInspectionPenalties = Some(TRUE)

\* The inspection time that call measured.
BeganSolveElapsed == now - Val(prev.inspectionStartTs)

\* C6: with limit L > 0 and penalties enabled, beginning the solve after
\* elapsed = now - inspectionStartTs stores inspectionElapsedMs = elapsed and
\* inspectionPenalty None if elapsed <= L, Plus2 if L < elapsed <= L + 2000,
\* DNF if elapsed > L + 2000 (L = 15000: 15000 -> None, 15001 -> Plus2,
\* 17000 -> Plus2, 17001 -> DNF).
C6_InspectionPenaltyThresholds ==
    BeganSolveWithPenalties =>
        LET L == prev.config.inspectionDurationMs
            elapsed == BeganSolveElapsed
        IN /\ state.inspectionElapsedMs = elapsed
           /\ elapsed <= L => state.inspectionPenalty = PenaltyNone
           /\ (L < elapsed /\ elapsed <= L + 2000)
                  => state.inspectionPenalty = PenaltyPlus2
           /\ elapsed > L + 2000 => state.inspectionPenalty = PenaltyDNF
           /\ L = 15000 =>
                  /\ elapsed = 15000 => state.inspectionPenalty = PenaltyNone
                  /\ elapsed = 15001 => state.inspectionPenalty = PenaltyPlus2
                  /\ elapsed = 17000 => state.inspectionPenalty = PenaltyPlus2
                  /\ elapsed = 17001 => state.inspectionPenalty = PenaltyDNF

\* The solve began exactly at the end of the +2 window.
C6_Witness ==
    /\ BeganSolveWithPenalties
    /\ prev.config.inspectionDurationMs = 15000
    /\ BeganSolveElapsed = 17000
    /\ state.inspectionPenalty = PenaltyPlus2

\* C7: combining penalties is commutative and yields the more severe one
\* under DNF > Plus2 > None; every result carries the more severe of the
\* inspection and the manual penalty, and a result with an inspection Plus2
\* and a manual Plus2 has finalDurationMs = rawDurationMs + 2000.
C7_CombineIsDominance ==
    /\ \A a \in Penalty, b \in Penalty :
          /\ combinePenalties(a, b) = combinePenalties(b, a)
          /\ combinePenalties(a, b) = Severest(a, b)
    /\ \A x \in Penalty : combinePenalties(PenaltyDNF, x) = PenaltyDNF
    /\ combinePenalties(PenaltyPlus2, PenaltyNone) = PenaltyPlus2
    /\ combinePenalties(PenaltyPlus2, PenaltyPlus2) = PenaltyPlus2
    /\ HasResult(state) =>
          LET r == Val(state.result) IN
          /\ r.penalty = Severest(state.inspectionPenalty, state.manualPenalty)
          /\ r.penalty = Severest(state.manualPenalty, state.inspectionPenalty)
          /\ (state.inspectionPenalty = PenaltyPlus2
                  /\ state.manualPenalty = PenaltyPlus2)
                 => r.finalDurationMs = Some(r.rawDurationMs + 2000)

\* A result with an inspection Plus2 has just received a manual Plus2.
C7_Witness ==
    /\ lastOp = "applyManualPenalty"
    /\ lastArg = PenaltyPlus2
    /\ HasResult(state)
    /\ state.inspectionPenalty = PenaltyPlus2
    /\ state.manualPenalty = PenaltyPlus2
    /\ Val(state.result).rawDurationMs > 0

\* The duration a penalty yields from a raw duration, as the specification
\* states it.
ExpectedFinal(rawMs, p) ==
    CASE p = PenaltyDNF -> Null
      [] p = PenaltyPlus2 -> Some(rawMs + 2000)
      [] p = PenaltyNone -> Some(rawMs)

\* C8: on a state with a result, applyManualPenalty(p) sets result.penalty to
\* the combination of the stored inspection penalty and p, whatever manual
\* penalty was applied before, and recomputes finalDurationMs from
\* rawDurationMs; the result is never below the inspection penalty; and
\* applyManualPenalty(DNF) followed by applyManualPenalty(None) restores
\* exactly the result stopSolve produced.
C8_ManualPenaltyReplacesManual ==
    [][ (lastOp' = "applyManualPenalty" /\ HasResult(state)) =>
          /\ HasResult(state')
          /\ LET r == Val(state'.result) IN
             /\ r.penalty = Severest(state.inspectionPenalty, lastArg')
             /\ r.finalDurationMs = ExpectedFinal(r.rawDurationMs, r.penalty)
             /\ Rank(r.penalty) >= Rank(state.inspectionPenalty)
          /\ ( /\ lastOp = "applyManualPenalty"
               /\ lastArg = PenaltyDNF
               /\ HasResult(prev)
               /\ lastArg' = PenaltyNone )
                 => state'.result = stopResult
      ]_vars

\* C9: applyManualPenalty is idempotent on states with a result (applying
\* the same penalty a second time changes nothing), and applying None to a
\* stopped state whose manual and result penalties are None leaves the
\* result equal in every field.
C9_ManualPenaltyIdempotent ==
    [][ (lastOp' = "applyManualPenalty" /\ HasResult(state)) =>
          /\ ( /\ lastOp = "applyManualPenalty"
               /\ HasResult(prev)
               /\ lastArg' = lastArg )
                 => state' = state
          /\ applyManualPenalty(state', lastArg') = state'
          /\ ( /\ lastArg' = PenaltyNone
               /\ state.status = "stopped"
               /\ state.manualPenalty = PenaltyNone
               /\ Val(state.result).penalty = PenaltyNone )
                 => state'.result = state.result
      ]_vars

\* A manual Plus2 was applied to a result that already carried a manual
\* Plus2 and no inspection penalty.
C9_Witness ==
    /\ lastOp = "applyManualPenalty"
    /\ lastArg = PenaltyPlus2
    /\ HasResult(prev)
    /\ prev.manualPenalty = PenaltyPlus2
    /\ prev.inspectionPenalty = PenaltyNone
    /\ Val(prev.result).penalty = PenaltyPlus2
    /\ Val(prev.result).rawDurationMs > 0
    /\ state = prev

\* C10: applyManualPenalty changes nothing but manualPenalty, result.penalty
\* and result.finalDurationMs: the result's startTs, endTs, rawDurationMs
\* and inspectionDurationMs, and the engine's status, inspectionPenalty,
\* inspectionElapsedMs, runStartTs and runEndTs (and every other field) stay.
C10_ManualPenaltyFrame ==
    lastOp = "applyManualPenalty" =>
        /\ state.status = prev.status
        /\ state.config = prev.config
        /\ state.inspectionStartTs = prev.inspectionStartTs
        /\ state.inspectionPenalty = prev.inspectionPenalty
        /\ state.inspectionElapsedMs = prev.inspectionElapsedMs
        /\ state.runStartTs = prev.runStartTs
        /\ state.runEndTs = prev.runEndTs
        /\ HasResult(state) <=> HasResult(prev)
        /\ HasResult(prev) =>
              LET r == Val(state.result)
                  q == Val(prev.result)
              IN /\ r.startTs = q.startTs
                 /\ r.endTs = q.endTs
                 /\ r.rawDurationMs = q.rawDurationMs
                 /\ r.inspectionDurationMs = q.inspectionDurationMs

\* A manual DNF has just replaced the penalty of a result that had an
\* inspection Plus2.
C10_Witness ==
    /\ lastOp = "applyManualPenalty"
    /\ lastArg = PenaltyDNF
    /\ HasResult(prev)
    /\ prev.inspectionPenalty = PenaltyPlus2
    /\ Val(prev.result).penalty = PenaltyPlus2
    /\ Val(state.result).penalty = PenaltyDNF
    /\ Val(state.result).finalDurationMs = Null

\* C11: with config.inspectionDurationMs = 0 no reachable state is in
\* inspection: a start from idle or stopped goes directly to running with
\* runStartTs set to the clock reading, and every result has
\* inspectionDurationMs = 0 and no inspection penalty.
C11_NoInspectionWhenDisabled ==
    state.config.inspectionDurationMs = 0 =>
        /\ state.status # "inspection"
        /\ state.inspectionPenalty = PenaltyNone
        /\ ( /\ lastOp \in {"startOrInspect", "handleSpacebar"}
             /\ prev.status \in {"idle", "stopped"} )
               => /\ state.status = "running"
                  /\ state.runStartTs = Some(now)
        /\ HasResult(state) =>
              /\ Val(state.result).inspectionDurationMs = 0
              /\ Val(state.result).penalty = state.manualPenalty

\* Without inspection, a solve restarted from stopped has been stopped again
\* with a positive raw duration.
C11_Witness ==
    /\ state.config.inspectionDurationMs = 0
    /\ lastOp \in {"stopSolve", "handleSpacebar"}
    /\ Moved("running", "stopped")
    /\ Val(state.result).startTs > 0
    /\ Val(state.result).rawDurationMs > 0
    /\ Val(state.result).inspectionDurationMs = 0

(* ------------------------------------------------------------------ *)
(* Properties of the useTimer hook                                    *)
(* ------------------------------------------------------------------ *)

\* The last handler was a tick that measured this inspection time.
TickObserved(e) == lastOp = "tick" /\ hook.observed = Some(e)

\* C12: when the polling tick observes an inspection time beyond
\* limit + 2000 ms, the timer is left in status stopped with a result whose
\* penalty is DNF and whose finalDurationMs is null, after a forced begin of
\* the solve, a stop and a manual DNF.
C12_InspectionTimeoutForcesDnf ==
    ( /\ lastOp = "tick"
      /\ ~IsNullish(hook.observed)
      /\ Val(hook.observed) > INSPECTION_DURATION_MS + TIMEOUT_GRACE_MS )
        => /\ state.status = "stopped"
           /\ HasResult(state)
           /\ Val(state.result).penalty = PenaltyDNF
           /\ Val(state.result).finalDurationMs = Null
           /\ state.manualPenalty = PenaltyDNF
           /\ state.inspectionElapsedMs = Val(hook.observed)

\* A tick measured 17001 ms of inspection and left the timer stopped.
C12_Witness ==
    /\ TickObserved(17001)
    /\ state.status = "stopped"
    /\ Val(state.result).penalty = PenaltyDNF

\* C13: the tick forces the automatic DNF only when the inspection time is
\* strictly greater than limit + 2000; a tick that observes exactly
\* limit + 2000 (or less) leaves the engine state as it was.
C13_TimeoutIsStrict ==
    ( /\ lastOp = "tick"
      /\ ~IsNullish(hook.observed)
      /\ Val(hook.observed) <= INSPECTION_DURATION_MS + TIMEOUT_GRACE_MS )
        => state = prev

\* C14: every transition into stopped, by a user stop or by the forced
\* inspection timeout, comes with exactly one onSolveComplete call carrying
\* its result.
C14_EveryStopIsReported ==
    /\ Len(hook.completed) = Len(hook.stopped)
    /\ \A i \in 1 .. Len(hook.completed) :
          i <= Len(hook.stopped) => hook.completed[i].result = hook.stopped[i]

\* C15: a keyboard stop and a touch stop of the same running attempt, both
\* handled before the hook renders again, produce one result and at most one
\* onSolveComplete call.
C15_OneResultPerAttempt ==
    \A i \in 1 .. Len(hook.completed), j \in 1 .. Len(hook.completed) :
        ( /\ i # j
          /\ hook.completed[i].via = "key"
          /\ hook.completed[j].via = "touch" )
            => hook.completed[i].result.startTs
                  # hook.completed[j].result.startTs

(* ------------------------------------------------------------------ *)
(* Properties of the statistics engine                                *)
(* ------------------------------------------------------------------ *)

\* The chronological history: finalDurationMs of attempt i (from 0), and the
\* window of size n that starts at offset start.
HistoryLength == Len(session.history)
Attempt(i) == session.history[i + 1].timing.finalDurationMs
WindowAt(start, n) == start .. start + n - 1
DnfsIn(start, n) == {i \in WindowAt(start, n) : IsNullish(Attempt(i))}
TimesIn(start, n) == WindowAt(start, n) \ DnfsIn(start, n)

\* The sum of the times of the attempts in positions.
RECURSIVE TotalOf(_)
TotalOf(positions) ==
    IF positions = {} THEN 0
    ELSE LET i == CHOOSE j \in positions : TRUE
         IN Val(Attempt(i)) + TotalOf(positions \ {i})

FastestIn(start, n) ==
    CHOOSE v \in {Val(Attempt(i)) : i \in TimesIn(start, n)} :
        \A i \in TimesIn(start, n) : v <= Val(Attempt(i))
SlowestIn(start, n) ==
    CHOOSE v \in {Val(Attempt(i)) : i \in TimesIn(start, n)} :
        \A i \in TimesIn(start, n) : v >= Val(Attempt(i))

\* The mean of 3 and the trimmed average of n as the rules state them.
MeanOf3Valid(start) == DnfsIn(start, 3) = {}
MeanOf3Value(start) == Number(TotalOf(WindowAt(start, 3)), 3)
TrimmedValid(start, n) == Cardinality(DnfsIn(start, n)) <= 1
TrimmedTotal(start, n) ==
    TotalOf(TimesIn(start, n)) - FastestIn(start, n)
        - (IF DnfsIn(start, n) = {} THEN SlowestIn(start, n) ELSE 0)
TrimmedValue(start, n) == Number(TrimmedTotal(start, n), n - 2)

\* DNF sorts after every time.
NoSlower(i, j) ==
    IsNullish(Attempt(j)) \/
        (~IsNullish(Attempt(i)) /\ Val(Attempt(i)) <= Val(Attempt(j)))

Elements(seq) == {seq[k] : k \in 1 .. Len(seq)}
Rolling == session.stats.rolling

TrailingSizes ==
    [mo3 |-> 3, ao5 |-> 5, ao12 |-> 12, ao50 |-> 50, ao100 |-> 100,
     ao1000 |-> 1000]

\* C16: each trailing aggregate of window size N is null exactly when the
\* history has fewer than N attempts, and a non-null one has valueMs null
\* exactly when isDnf is true.
C16_NullMeansTooShort ==
    \A a \in DOMAIN TrailingSizes :
        /\ IsNullish(Rolling[a]) <=> HistoryLength < TrailingSizes[a]
        /\ ~IsNullish(Rolling[a]) =>
              /\ IsNullish(Val(Rolling[a]).valueMs) <=> Val(Rolling[a]).isDnf
              /\ Val(Rolling[a]).size = TrailingSizes[a]

\* The Ao5 is valid, the Ao12 is invalidated by DNFs, the Ao50 is missing.
C16_Witness ==
    /\ session.added > 0
    /\ ~IsNullish(Rolling.ao5) /\ ~Val(Rolling.ao5).isDnf
    /\ ~IsNullish(Rolling.ao12) /\ Val(Rolling.ao12).isDnf
    /\ IsNullish(Val(Rolling.ao12).valueMs)
    /\ IsNullish(Rolling.ao50)

\* C17: the trailing AoN drops one smallest and one largest element of the
\* last N attempts (a DNF being the largest) and averages the other N-2; it
\* is invalid exactly when the window holds two or more DNFs; the example
\* history gives 30000 over 20000, 30000, 40000; indices are N-2 distinct
\* positions of the window.
C17_TrimmedAverage ==
    \A a \in DOMAIN TrailingSizes \ {"mo3"} :
        ~IsNullish(Rolling[a]) =>
            LET n == TrailingSizes[a]
                start == HistoryLength - n
                r == Val(Rolling[a])
                dropped == WindowAt(start, n) \ Elements(r.indices)
            IN /\ r.isDnf <=> ~TrimmedValid(start, n)
               /\ r.valueMs = IF TrimmedValid(start, n)
                              THEN Some(TrimmedValue(start, n))
                              ELSE Null
               /\ Len(r.indices) = n - 2
               /\ Cardinality(Elements(r.indices)) = n - 2
               /\ Elements(r.indices) \subseteq WindowAt(start, n)
               /\ \E lo \in dropped, hi \in dropped :
                     /\ lo # hi
                     /\ \A i \in WindowAt(start, n) :
                           NoSlower(lo, i) /\ NoSlower(i, hi)
               /\ [i \in 1 .. HistoryLength |-> Attempt(i - 1)]
                     = ExampleHistory
                  => /\ r.valueMs = Some(Num(30000))
                     /\ {Val(Attempt(i)) : i \in Elements(r.indices)}
                           = {20000, 30000, 40000}

\* The last five attempts hold one DNF and their Ao5 is valid, the last twelve
\* hold more and their Ao12 is not.
C17_Witness ==
    /\ session.added > 0
    /\ HistoryLength >= 12
    /\ Cardinality(DnfsIn(HistoryLength - 5, 5)) = 1
    /\ Val(Rolling.ao5).valueMs = Some(TrimmedValue(HistoryLength - 5, 5))
    /\ Cardinality(DnfsIn(HistoryLength - 12, 12)) >= 2
    /\ Val(Rolling.ao12).isDnf

\* C18: the trailing Mo3 is the mean of the last 3 attempts when none is a
\* DNF and is invalid with a null value when any is; nothing is trimmed.
C18_MeanOf3 ==
    ~IsNullish(Rolling.mo3) =>
        LET start == HistoryLength - 3
            r == Val(Rolling.mo3)
        IN /\ r.isDnf <=> ~MeanOf3Valid(start)
           /\ r.valueMs = IF MeanOf3Valid(start)
                          THEN Some(MeanOf3Value(start))
                          ELSE Null
           /\ r.indices = << start, start + 1, start + 2 >>

\* Three different times were averaged, and an earlier DNF does not count.
C18_Witness ==
    /\ session.added > 0
    /\ HistoryLength >= 4
    /\ IsNullish(Attempt(HistoryLength - 4))
    /\ MeanOf3Valid(HistoryLength - 3)
    /\ Attempt(HistoryLength - 3) # Attempt(HistoryLength - 2)
    /\ Val(Rolling.mo3).valueMs = Some(MeanOf3Value(HistoryLength - 3))
    /\ ~Val(Rolling.mo3).isDnf

\* The start offsets of the last x Ao5 windows.
LastAo5Starts(x) == HistoryLength - 4 - x .. HistoryLength - 5
RECURSIVE TrimmedTotals(_)
TrimmedTotals(starts) ==
    IF starts = {} THEN 0
    ELSE LET k == CHOOSE j \in starts : TRUE
         IN TrimmedTotal(k, 5) + TrimmedTotals(starts \ {k})

\* C19: for X > 0 the trailing MoXAo5 is null exactly when the history has
\* fewer than X + 4 attempts; otherwise it is the mean of the last X Ao5
\* values, invalid with a null value exactly when one of those Ao5 is invalid.
C19_MeanOfAo5 ==
    ( ~IsNullish(session.moXAo5) /\ Val(session.moXAo5) > 0 ) =>
        LET x == Val(session.moXAo5)
        IN /\ ~IsNullish(Rolling.moXAo5)
           /\ Val(Rolling.moXAo5).x = x
           /\ IsNullish(Val(Rolling.moXAo5).result) <=> HistoryLength < x + 4
           /\ ~IsNullish(Val(Rolling.moXAo5).result) =>
                 LET r == Val(Val(Rolling.moXAo5).result)
                     valid == \A k \in LastAo5Starts(x) : TrimmedValid(k, 5)
                 IN /\ r.isDnf <=> ~valid
                    /\ r.valueMs =
                          IF valid
                          THEN Some(Number(TrimmedTotals(LastAo5Starts(x)),
                                           3 * x))
                          ELSE Null

\* A valid mean of two different Ao5 values.
C19_Witness ==
    /\ session.added > 0
    /\ session.moXAo5 = Some(2)
    /\ HistoryLength >= 6
    /\ ~IsNullish(Val(Rolling.moXAo5).result)
    /\ ~Val(Val(Rolling.moXAo5).result).isDnf
    /\ TrimmedValid(HistoryLength - 6, 5) /\ TrimmedValid(HistoryLength - 5, 5)
    /\ TrimmedTotal(HistoryLength - 6, 5) # TrimmedTotal(HistoryLength - 5, 5)

\* The personal bests of one type, and the valid offsets of a window kind.
PersonalBests(type) ==
    {pb \in Elements(session.stats.personalBests) : pb.type = type}
BestSizes == [mo3 |-> 3, ao5 |-> 5, ao12 |-> 12]
WindowValid(type, start) ==
    IF type = "mo3" THEN MeanOf3Valid(start)
    ELSE TrimmedValid(start, BestSizes[type])
WindowValue(type, start) ==
    IF type = "mo3" THEN MeanOf3Value(start)
    ELSE TrimmedValue(start, BestSizes[type])
ValidOffsets(type) ==
    {start \in 0 .. HistoryLength - BestSizes[type] : WindowValid(type, start)}

\* C20: the personal best of mo3, ao5 and ao12 is the least valid window value
\* over every start offset of the history, under the rule of the trailing
\* aggregate; there is none exactly when no offset gives a valid value.
C20_BestOverAllOffsets ==
    \A type \in DOMAIN BestSizes :
        /\ PersonalBests(type) = {} <=> ValidOffsets(type) = {}
        /\ Cardinality(PersonalBests(type)) <= 1
        /\ \A pb \in PersonalBests(type) :
              /\ pb.size = Some(BestSizes[type])
              /\ \E start \in ValidOffsets(type) :
                    pb.valueMs = WindowValue(type, start)
              /\ \A start \in ValidOffsets(type) :
                    ~GreaterThan(pb.valueMs, WindowValue(type, start))

\* After a solve was added the best Ao12 and the best Mo3 are both better
\* than the trailing ones.
C20_Witness ==
    /\ session.added > 0
    /\ ~IsNullish(Rolling.ao12)
    /\ ~Val(Rolling.ao12).isDnf
    /\ \E pb \in PersonalBests("ao12") :
          GreaterThan(Val(Val(Rolling.ao12).valueMs), pb.valueMs)
    /\ ~Val(Rolling.mo3).isDnf
    /\ \E pb \in PersonalBests("mo3") :
          GreaterThan(Val(Val(Rolling.mo3).valueMs), pb.valueMs)

\* The first attempt with time v, and the earliest of the valid offsets with
\* the least window value.
FirstHolder(v) ==
    CHOOSE i \in 0 .. HistoryLength - 1 :
        /\ Attempt(i) = Some(v)
        /\ \A j \in 0 .. i - 1 : Attempt(j) # Some(v)
BestOffsets(type) ==
    LET values == {WindowValue(type, start) : start \in ValidOffsets(type)}
        least == CHOOSE v \in values : \A w \in values : ~GreaterThan(v, w)
    IN {start \in ValidOffsets(type) : WindowValue(type, start) = least}
EarliestBest(type) ==
    CHOOSE start \in BestOffsets(type) :
        \A other \in BestOffsets(type) : start <= other
AllTimes == TimesIn(0, HistoryLength)
SolveIdsAt(indices) ==
    [k \in 1 .. Len(indices) |-> session.history[indices[k] + 1].id]

\* The personal bests name the first holder of the best single and the
\* earliest window with the least value.
EarliestHolderKept ==
    /\ PersonalBests("single") = {} <=> AllTimes = {}
    /\ \A pb \in PersonalBests("single") :
          LET first == FirstHolder(FastestIn(0, HistoryLength))
          IN /\ pb.valueMs = Num(FastestIn(0, HistoryLength))
             /\ pb.solveIds = << session.history[first + 1].id >>
             /\ pb.achievedAt = session.history[first + 1].createdAt
    /\ [i \in 1 .. HistoryLength |-> Attempt(i - 1)] = TieHistory
          => \E pb \in PersonalBests("single") :
                /\ pb.valueMs = Num(11000)
                /\ pb.solveIds = << session.history[2].id >>
    /\ \A type \in DOMAIN BestSizes :
          \A pb \in PersonalBests(type) :
             /\ pb.valueMs = WindowValue(type, EarliestBest(type))
             /\ pb.solveIds =
                   SolveIdsAt(computeWindowAt(
                       extractDurations(session.history), EarliestBest(type),
                       IF type = "mo3" THEN "mo3" ELSE "trimmed",
                       BestSizes[type]).contributingIndices)

\* A step replaces a personal best only by a strictly lower one.
StrictImprovementOnly ==
    \A type \in {"single", "mo3", "ao5", "ao12"} :
        \A pb \in PersonalBests(type) :
            /\ PersonalBests(type)' # {}
            /\ \A next \in PersonalBests(type)' :
                  next = pb \/ GreaterThan(pb.valueMs, next.valueMs)

\* C21: personal bests change only on strict improvement and ties keep the
\* earliest: the single PB is the least time, attributed to the first attempt
\* holding it (11000 at index 1 for [12000, 11000, 11000]); a window PB is
\* that of the smallest start offset among those with the least value.
C21_TiesKeepEarliest == []EarliestHolderKept /\ [][StrictImprovementOnly]_vars

\* The best time is held twice and two Mo3 windows tie for the best.
C21_Witness ==
    /\ session.added > 0
    /\ Cardinality({i \in AllTimes :
                       Val(Attempt(i)) = FastestIn(0, HistoryLength)}) >= 2
    /\ Cardinality(BestOffsets("mo3")) >= 2
    /\ Cardinality(BestOffsets("ao5")) >= 2
    /\ PersonalBests("ao5") # {}

\* The attempt at the largest position among those with the given ids.
LastAttemptOf(ids) ==
    CHOOSE i \in 1 .. HistoryLength :
        /\ session.history[i].id \in ids
        /\ \A j \in 1 .. HistoryLength :
              session.history[j].id \in ids => j <= i

\* C22: the solveIds of every mo3, ao5 and ao12 personal best are the ids of
\* the attempts averaged at the winning offset, and achievedAt is the
\* createdAt of the contributing attempt at the largest position of the
\* chronological history.
C22_AchievedAtLastContributor ==
    \A type \in DOMAIN BestSizes :
        \A pb \in PersonalBests(type) :
            /\ Elements(pb.solveIds) =
                  Elements(SolveIdsAt(computeWindowAt(
                      extractDurations(session.history), EarliestBest(type),
                      IF type = "mo3" THEN "mo3" ELSE "trimmed",
                      BestSizes[type]).contributingIndices))
            /\ Len(pb.solveIds) =
                  IF type = "mo3" THEN 3 ELSE BestSizes[type] - 2
            /\ pb.achievedAt =
                  session.history[LastAttemptOf(Elements(pb.solveIds))].createdAt

\* The runs of x consecutive Ao5 windows, each named by the start offset of
\* its first window, and the valid ones among them.
Ao5Runs(x) == 0 .. HistoryLength - 4 - x
RunStarts(first, x) == first .. first + x - 1
ValidRuns(x) ==
    {first \in Ao5Runs(x) : \A k \in RunStarts(first, x) : TrimmedValid(k, 5)}
RunValue(first, x) == Number(TrimmedTotals(RunStarts(first, x)), 3 * x)

\* C23: the custom personal best is the least valid MoXAo5 value over every
\* run of X consecutive Ao5 windows of the history, not only the run that
\* ends at the latest attempt.
C23_CustomBestOverAllRuns ==
    ( ~IsNullish(session.moXAo5) /\ Val(session.moXAo5) > 0 ) =>
        LET x == Val(session.moXAo5)
        IN /\ PersonalBests("custom") = {} <=> ValidRuns(x) = {}
           /\ \A pb \in PersonalBests("custom") :
                 /\ \E first \in ValidRuns(x) : pb.valueMs = RunValue(first, x)
                 /\ \A first \in ValidRuns(x) :
                       ~GreaterThan(pb.valueMs, RunValue(first, x))

DefinedNames ==
    {splits.definitions[i].name : i \in 1 .. Len(splits.definitions)}

CapturedNames ==
    {splits.capture.phases[i].phase : i \in 1 .. Len(splits.capture.phases)}

\* The definitions are trimmed, in order, and have no issue.
WellDefined ==
    /\ splits.normalized.issues = << >>
    /\ splits.normalized.normalized = splits.definitions

OrderOf(name) ==
    LET i == CHOOSE j \in 1 .. Len(splits.definitions) :
                 splits.definitions[j].name = name
    IN splits.definitions[i].order

\* The timestamp the capture holds for a captured phase.
TimestampOf(name) ==
    LET i == CHOOSE j \in 1 .. Len(splits.capture.phases) :
                 splits.capture.phases[j].phase = name
    IN splits.capture.phases[i].timestampMs

\* The captured phases that the definitions place after the phase.
LaterCaptured(name) ==
    {n \in CapturedNames \cap DefinedNames : OrderOf(n) > OrderOf(name)}

\* Where a captured phase ends: at the timestamp of the next captured
\* phase, or at the total duration when it is the last one.
EndOf(name) ==
    IF LaterCaptured(name) = {} THEN Val(splits.endTimestampMs)
    ELSE TimestampOf(CHOOSE n \in LaterCaptured(name) :
                         \A m \in LaterCaptured(name) : OrderOf(n) <= OrderOf(m))

ExpectedDuration(name) ==
    IF name \in CapturedNames THEN Some(EndOf(name) - TimestampOf(name))
    ELSE Null

\* C25: computePhaseDurations returns an entry for every defined phase: a
\* captured phase lasts from its timestamp to the timestamp of the next
\* phase (or to the total duration when it is the last), and a phase absent
\* from the capture has a null duration.
C25_EntryForEveryDefinedPhase ==
    (/\ WellDefined
     /\ ~splits.changed
     /\ CapturedNames \subseteq DefinedNames
     /\ ~IsNullish(splits.endTimestampMs))
    => /\ DOMAIN splits.durations = DefinedNames
       /\ \A name \in DefinedNames :
              /\ name \in DOMAIN splits.durations
              /\ splits.durations[name] = ExpectedDuration(name)

\* The part of C25 about the captured phases alone.
CapturedDurations ==
    (/\ WellDefined
     /\ ~splits.changed
     /\ ~IsNullish(splits.endTimestampMs)
     /\ splits.validation.ok
     /\ \A name \in CapturedNames :
            Val(splits.endTimestampMs) >= TimestampOf(name))
    => \A name \in CapturedNames :
           /\ name \in DOMAIN splits.durations
           /\ splits.durations[name] = ExpectedDuration(name)

\* The names of the definitions after normalization.
NormalizedNames ==
    {splits.normalized.normalized[i].name :
        i \in 1 .. Len(splits.normalized.normalized)}

PhasesOf(capture) == {capture.phases[i].phase : i \in 1 .. Len(capture.phases)}

\* The positions of a phase in a capture.
PositionsOf(capture, phase) ==
    {i \in 1 .. Len(capture.phases) : capture.phases[i].phase = phase}

Appended == splits.call.op = "appendPhaseTimestamp"

\* The last call named a phase the capture already held.
AppendedCaptured ==
    /\ Appended
    /\ splits.call.phase \in NormalizedNames
    /\ splits.call.phase \in PhasesOf(splits.call.before)

\* C26: appendPhaseTimestamp replaces the stored timestamp of a phase that
\* is already in the capture iff the new timestamp is >= the stored one and
\* otherwise returns the capture unchanged; a phase that is not in the
\* definitions leaves the capture unchanged; so each phase appears at most
\* once and its stored timestamp never decreases.
C26_MonotonicAppend ==
    Appended =>
        LET before == splits.call.before
            after == splits.capture
            phase == splits.call.phase
            timestampMs == splits.call.timestampMs
        IN /\ phase \notin NormalizedNames => after = before
           /\ AppendedCaptured =>
                  /\ Len(after.phases) = Len(before.phases)
                  /\ \A i \in 1 .. Len(before.phases) :
                         /\ after.phases[i].phase = before.phases[i].phase
                         /\ after.phases[i].timestampMs =
                                IF /\ before.phases[i].phase = phase
                                   /\ timestampMs >= before.phases[i].timestampMs
                                THEN timestampMs
                                ELSE before.phases[i].timestampMs
           /\ \A name \in PhasesOf(after) :
                  Cardinality(PositionsOf(after, name)) = 1
           /\ \A i \in 1 .. Len(before.phases) :
                  \E j \in 1 .. Len(after.phases) :
                      /\ after.phases[j].phase = before.phases[i].phase
                      /\ after.phases[j].timestampMs
                             >= before.phases[i].timestampMs

\* A captured phase took a later timestamp, next to a phase that kept its own.
C26_Witness ==
    /\ AppendedCaptured
    /\ Len(splits.capture.phases) >= 2
    /\ \E i \in 1 .. Len(splits.call.before.phases) :
           /\ splits.call.before.phases[i].phase = splits.call.phase
           /\ splits.call.before.phases[i].timestampMs < splits.call.timestampMs
           /\ splits.capture.phases[i].timestampMs = splits.call.timestampMs

\* An earlier timestamp for a captured phase was rejected.
LateCorrectionRejected ==
    /\ AppendedCaptured
    /\ \E i \in 1 .. Len(splits.call.before.phases) :
           /\ splits.call.before.phases[i].phase = splits.call.phase
           /\ splits.call.before.phases[i].timestampMs > splits.call.timestampMs
    /\ splits.capture = splits.call.before

\* The capture was built from the empty capture by appendPhaseTimestamp
\* alone, under definitions that have no issue.
BuiltByAppends == WellDefined /\ ~splits.changed

\* C27: a capture built from the empty capture by any sequence of
\* appendPhaseTimestamp calls has, with its phases taken in definition
\* order, non-decreasing timestamps, and validateSplitInstances reports ok.
C27_BuiltCapturesAreMonotonic ==
    BuiltByAppends =>
        /\ \A a, b \in CapturedNames :
               OrderOf(a) < OrderOf(b) => TimestampOf(a) <= TimestampOf(b)
        /\ splits.validation.ok

Instance(i) == splits.capture.phases[i]

IsDefined(i) == Instance(i).phase \in DefinedNames

\* The definition a name stands for (the last one of that name) and the
\* number of definitions that come before it in ascending order.
DefinitionPosition(name) ==
    LET k == CHOOSE i \in 1 .. Len(splits.definitions) :
                 /\ splits.definitions[i].name = name
                 /\ \A j \in 1 .. Len(splits.definitions) :
                        splits.definitions[j].name = name => j <= i
    IN Cardinality({j \in 1 .. Len(splits.definitions) :
           \/ splits.definitions[j].order < splits.definitions[k].order
           \/ /\ splits.definitions[j].order = splits.definitions[k].order
              /\ j < k})

\* The instances of defined phases before instance i.
RecordedBefore(i) == {j \in 1 .. i - 1 : IsDefined(j)}

PreviousRecorded(i) ==
    CHOOSE j \in RecordedBefore(i) : \A k \in RecordedBefore(i) : k <= j

\* The issues instance i calls for.
IssuesOf(i) ==
    IF ~IsDefined(i)
    THEN << PhaseValidationIssue(Instance(i).phase, "Phase not defined") >>
    ELSE IF RecordedBefore(i) = {} THEN << >>
    ELSE LET previous == Instance(PreviousRecorded(i)) IN
         (IF DefinitionPosition(Instance(i).phase)
                 < DefinitionPosition(previous.phase)
          THEN << PhaseValidationIssue(Instance(i).phase,
                      "Phase out of order") >>
          ELSE << >>)
         \o (IF Instance(i).timestampMs < previous.timestampMs
             THEN << PhaseValidationIssue(Instance(i).phase,
                         "Timestamps must be non-decreasing") >>
             ELSE << >>)

RECURSIVE IssuesUpTo(_)
IssuesUpTo(n) == IF n = 0 THEN << >> ELSE IssuesUpTo(n - 1) \o IssuesOf(n)

\* C28: validateSplitInstances returns ok = true iff it reports no issue,
\* and reports an issue for each instance of an undefined phase, for each
\* instance whose definition position is lower than that of the previous
\* instance of a defined phase, and for each instance whose timestamp is
\* lower than that of the previous instance of a defined phase; instances
\* of undefined phases do not influence the checks on later instances.
C28_ValidationIssues ==
    /\ splits.validation.ok <=> splits.validation.issues = << >>
    /\ splits.validation.issues = IssuesUpTo(Len(splits.capture.phases))

\* An instance of an undefined phase stands between two instances of
\* defined phases, and the later one is reported for a timestamp that is
\* lower than that of the earlier one, though not lower than that of the
\* undefined one.
C28_Witness ==
    \E i, j, k \in 1 .. Len(splits.capture.phases) :
        /\ i < j /\ j < k
        /\ IsDefined(i) /\ ~IsDefined(j) /\ IsDefined(k)
        /\ Instance(k).timestampMs < Instance(i).timestampMs
        /\ Instance(k).timestampMs >= Instance(j).timestampMs
        /\ \E n \in 1 .. Len(splits.validation.issues) :
               splits.validation.issues[n] =
                   PhaseValidationIssue(Instance(k).phase,
                       "Timestamps must be non-decreasing")
        /\ ~splits.validation.ok

\* An instance is reported for its definition position.
OutOfOrderReported ==
    \E n \in 1 .. Len(splits.validation.issues) :
        splits.validation.issues[n].message = "Phase out of order"

\* The capture without its entry i.
WithoutEntry(i) ==
    [splits.capture EXCEPT !.phases =
        SubSeq(splits.capture.phases, 1, i - 1)
            \o SubSeq(splits.capture.phases, i + 1,
                      Len(splits.capture.phases))]

DurationsWithout(i) ==
    computePhaseDurations([definitions |-> splits.definitions,
                           capture |-> WithoutEntry(i),
                           endTimestampMs |-> splits.endTimestampMs])

\* C29: in computePhaseDurations an entry whose phase is unknown to the
\* definitions does not change the duration of any defined phase: the
\* result for the defined phases equals the result computed on the capture
\* with that entry removed.
C29_UnknownEntryDroppedAlone ==
    \A i \in 1 .. Len(splits.capture.phases) :
        ~IsDefined(i) =>
            \A name \in DefinedNames :
                /\ name \in DOMAIN splits.durations
                       <=> name \in DOMAIN DurationsWithout(i)
                /\ name \in DOMAIN splits.durations =>
                       splits.durations[name] = DurationsWithout(i)[name]

Normalized == splits.normalized.normalized

\* The names of the normalized list are trimmed and not empty, and the list
\* holds the definitions whose trimmed name is not empty.
TrimmedAndNonEmpty ==
    /\ \A i \in 1 .. Len(Normalized) :
           /\ Normalized[i].name # ""
           /\ \E j \in 1 .. Len(splits.definitions) :
                  /\ Normalized[i].name = trim(splits.definitions[j].name)
                  /\ Normalized[i].order = splits.definitions[j].order
    /\ Len(Normalized) =
           Cardinality({j \in 1 .. Len(splits.definitions) :
                           trim(splits.definitions[j].name) # ""})

\* C30: after normalizePhaseDefinitions the normalized list has unique
\* names and strictly increasing order values, for every input list; names
\* are trimmed and empty names are removed.
C30_NormalizedIsUniqueAndIncreasing ==
    /\ \A i, j \in 1 .. Len(Normalized) :
           i < j => /\ Normalized[i].name # Normalized[j].name
                    /\ Normalized[i].order < Normalized[j].order
    /\ TrimmedAndNonEmpty

(* ------------------------------------------------------------------ *)
(* Further properties of the timing engine                            *)
(* ------------------------------------------------------------------ *)

\* The last call began the solve from inspection under a configuration that
\* has a limit and omits enableInspectionPenalties.
BeganSolveWithFlagOmitted ==
    /\ lastOp \in {"startRunningFromInspection", "handleSpacebar"}
    /\ Moved("inspection", "running")
    /\ prev.config.inspectionDurationMs > 0
    /\ prev.config.enableInspectionPenalties = Undefined

\* C34: with a configuration that omits enableInspectionPenalties and has
\* inspectionDurationMs = L > 0, beginning the solve after elapsed > L yields
\* Plus2 (through L + 2000) or DNF (beyond), as when the flag is true.
C34_PenaltiesOnByDefault ==
    BeganSolveWithFlagOmitted =>
        LET L == prev.config.inspectionDurationMs
            elapsed == BeganSolveElapsed
        IN /\ elapsed <= L => state.inspectionPenalty = PenaltyNone
           /\ (L < elapsed /\ elapsed <= L + 2000)
                  => state.inspectionPenalty = PenaltyPlus2
           /\ elapsed > L + 2000 => state.inspectionPenalty = PenaltyDNF

\* C35: in every state reachable through the engine transitions a result
\* exists iff the status is stopped, its penalty is the combination of the
\* inspection and the manual penalty of the state, and its rawDurationMs is
\* endTs - startTs with startTs = runStartTs and endTs = runEndTs.
C35_ResultIffStopped ==
    /\ HasResult(state) <=> state.status = "stopped"
    /\ HasResult(state) =>
           LET r == Val(state.result) IN
           /\ r.penalty = Severest(state.inspectionPenalty, state.manualPenalty)
           /\ r.rawDurationMs = r.endTs - r.startTs
           /\ Some(r.startTs) = state.runStartTs
           /\ Some(r.endTs) = state.runEndTs

\* A stopped attempt with an inspection Plus2 was given a manual DNF, after
\* an earlier attempt had been stopped and replaced.
C35_Witness ==
    /\ lastOp = "applyManualPenalty"
    /\ state.status = "stopped"
    /\ HasResult(state)
    /\ state.inspectionPenalty = PenaltyPlus2
    /\ state.manualPenalty = PenaltyDNF
    /\ Val(state.result).penalty = PenaltyDNF
    /\ Val(state.result).rawDurationMs > 0

(* ------------------------------------------------------------------ *)
(* Further properties of the statistics                               *)
(* ------------------------------------------------------------------ *)

\* The value lies between the fastest and the slowest time of the attempts
\* in positions, of which at least one is not a DNF.
WithinTimesOf(valueMs, positions) ==
    LET times == {Val(Attempt(i)) : i \in {j \in positions : ~IsNullish(Attempt(j))}}
    IN /\ times # {}
       /\ \E low \in times : ~GreaterThan(Num(low), valueMs)
       /\ \E high \in times : ~GreaterThan(valueMs, Num(high))

\* The positions of the attempts with the given ids.
PositionsOfIds(ids) ==
    {i \in 0 .. HistoryLength - 1 : session.history[i + 1].id \in Elements(ids)}

\* The trailing MoXAo5 result, when the option asks for one and there is one.
TrailingMoXAo5 ==
    IF IsNullish(Rolling.moXAo5) THEN Null ELSE Val(Rolling.moXAo5).result

\* C33: every non-null valueMs of a window computation, trailing or
\* best-ever, Mo3, AoN or MoXAo5, lies between the smallest and the largest
\* non-DNF finalDurationMs of the attempts in its window: the infinity that
\* stands for a DNF in the sort is never part of a value.
C33_ValuesWithinWindow ==
    /\ \A a \in DOMAIN TrailingSizes :
           ( ~IsNullish(Rolling[a]) /\ ~IsNullish(Val(Rolling[a]).valueMs) ) =>
               WithinTimesOf(Val(Val(Rolling[a]).valueMs),
                             WindowAt(HistoryLength - TrailingSizes[a],
                                      TrailingSizes[a]))
    /\ ( ~IsNullish(TrailingMoXAo5)
         /\ ~IsNullish(Val(TrailingMoXAo5).valueMs) ) =>
           WithinTimesOf(Val(Val(TrailingMoXAo5).valueMs),
                         WindowAt(HistoryLength - 4 - Val(TrailingMoXAo5).size,
                                  4 + Val(TrailingMoXAo5).size))
    /\ \A pb \in Elements(session.stats.personalBests) :
           WithinTimesOf(pb.valueMs, PositionsOfIds(pb.solveIds))

\* A solve was added and the trailing Ao5 and the Ao5 personal best both
\* have a value, with a DNF in the trailing window.
C33_Witness ==
    /\ session.added > 0
    /\ HistoryLength >= 5
    /\ ~IsNullish(Val(Rolling.ao5).valueMs)
    /\ DnfsIn(HistoryLength - 5, 5) # {}
    /\ PersonalBests("ao5") # {}
    /\ ~IsNullish(TrailingMoXAo5)
    /\ ~IsNullish(Val(TrailingMoXAo5).valueMs)

GrowingTypes == {"single", "mo3", "ao5", "ao12"}

\* Every personal best of the four kinds is still there in the next state,
\* with a value that is not greater, and unchanged when the value is.
BestsKeptOrImproved ==
    \A type \in GrowingTypes :
        \A pb \in PersonalBests(type) :
            \E next \in PersonalBests(type)' :
                /\ ~GreaterThan(next.valueMs, pb.valueMs)
                /\ next.valueMs = pb.valueMs =>
                       /\ next.solveIds = pb.solveIds
                       /\ next.achievedAt = pb.achievedAt

\* C37: when an attempt that is chronologically last is appended to the
\* history, each single, mo3, ao5 and ao12 personal best that existed
\* before still exists and its valueMs does not increase; if its valueMs is
\* unchanged, its solveIds and achievedAt are unchanged too.
C37_BestsMonotoneUnderGrowth == [][BestsKeptOrImproved]_vars

\* After solves were added, the Ao5 personal best is a window that ended
\* before the latest attempts, while the latest attempt is in the Mo3 one.
C37_Witness ==
    /\ session.added >= 2
    /\ HistoryLength >= 7
    /\ \E pb \in PersonalBests("ao5") :
           PositionsOfIds(pb.solveIds) \subseteq 0 .. HistoryLength - 3
    /\ \E pb \in PersonalBests("mo3") :
           HistoryLength - 1 \in PositionsOfIds(pb.solveIds)

\* C38: whenever the trailing mo3, ao5 or ao12 aggregate is valid, a
\* personal best of the same category exists with valueMs <= the trailing
\* valueMs; the single personal best exists iff rolling.bestMs is non-null
\* and then its valueMs equals rolling.bestMs; rolling.count counts the DNF
\* attempts too, while bestMs, worstMs and meanMs are computed over the
\* non-DNF attempts only.
C38_TrailingAndBestAgree ==
    /\ \A type \in DOMAIN BestSizes :
           ( ~IsNullish(Rolling[type])
             /\ ~IsNullish(Val(Rolling[type]).valueMs) ) =>
               \E pb \in PersonalBests(type) :
                   ~GreaterThan(pb.valueMs, Val(Val(Rolling[type]).valueMs))
    /\ PersonalBests("single") # {} <=> ~IsNullish(Rolling.bestMs)
    /\ \A pb \in PersonalBests("single") : pb.valueMs = Num(Val(Rolling.bestMs))
    /\ Rolling.count = HistoryLength
    /\ IF AllTimes = {}
       THEN /\ Rolling.bestMs = Null
            /\ Rolling.worstMs = Null
            /\ Rolling.meanMs = Null
       ELSE /\ Rolling.bestMs = Some(FastestIn(0, HistoryLength))
            /\ Rolling.worstMs = Some(SlowestIn(0, HistoryLength))
            /\ Rolling.meanMs =
                   Some(Number(TotalOf(AllTimes), Cardinality(AllTimes)))

\* A history with a DNF whose trailing Ao5 is valid and slower than the Ao5
\* personal best.
C38_Witness ==
    /\ session.added > 0
    /\ Rolling.count > Cardinality(AllTimes)
    /\ ~IsNullish(Rolling.ao5)
    /\ ~IsNullish(Val(Rolling.ao5).valueMs)
    /\ \E pb \in PersonalBests("ao5") :
           GreaterThan(Val(Val(Rolling.ao5).valueMs), pb.valueMs)
    /\ ~IsNullish(Rolling.bestMs)

(* ------------------------------------------------------------------ *)
(* Further properties of the useTimer hook                            *)
(* ------------------------------------------------------------------ *)

Resting == {"idle", "stopped"}

ReleaseHandlers == {"handleKeyUp", "handleTouchEnd", "handleBlur"}

\* The engine leaves idle or stopped only in a release handler.
LeavesRestOnlyOnRelease ==
    (state.status \in Resting /\ state' # state) => lastOp' \in ReleaseHandlers

\* The last handler was the key press that stopped the running solve or
\* ended the inspection, and the next one is the release of that key.
ReleaseOfStoppingPress ==
    /\ lastOp = "handleKeyDown"
    /\ prev.status \in {"running", "inspection"}
    /\ state # prev
    /\ lastOp' = "handleKeyUp"

\* C39: from idle or stopped the engine leaves that status only on a key or
\* touch release that follows a press held for at least 300 ms in idle or
\* stopped; the key press that stops a running solve or ends inspection
\* never starts the next attempt when it is released, however long it is
\* held.
C39_HoldToStartGating ==
    [][/\ LeavesRestOnlyOnRelease
       /\ ReleaseOfStoppingPress => state' = state]_vars

(* ------------------------------------------------------------------ *)
(* Properties of the AppContext                                       *)
(* ------------------------------------------------------------------ *)

\* No two captures of the list belong to the same solve.
CapturesUnique ==
    \A i, j \in 1 .. Len(app.splits) :
        app.splits[i].solveId = app.splits[j].solveId => i = j

\* The positions of the captures of a solve.
CapturesOf(captures, solveId) ==
    {i \in 1 .. Len(captures) : captures[i].solveId = solveId}

\* A capture was recorded in this step, by the reducer or by upsertCapture.
Recorded == app'.action.type \in {"ADD_SPLIT_CAPTURE", "upsertCapture"}

\* The step replaced the capture of the solve in place, or appended one when
\* the solve had none; the other captures are where and what they were.
RecordedInPlace ==
    LET solveId == app'.action.solveId
        old == CapturesOf(app.splits, solveId)
    IN /\ CapturesOf(app'.splits, solveId) # {}
       /\ IF old = {}
          THEN /\ Len(app'.splits) = Len(app.splits) + 1
               /\ SubSeq(app'.splits, 1, Len(app.splits)) = app.splits
          ELSE /\ Len(app'.splits) = Len(app.splits)
               /\ \A i \in 1 .. Len(app.splits) :
                     IF i \in old THEN app'.splits[i].solveId = solveId
                     ELSE app'.splits[i] = app.splits[i]

\* C31: after any sequence of upsertCapture and ADD_SPLIT_CAPTURE from a
\* list without duplicates there is at most one capture per solveId;
\* recording a capture for a solve that has one replaces it in place and
\* leaves the other captures and their order unchanged, and the list grows
\* by one only when the solveId is new.
C31_OneCapturePerSolve ==
    /\ []CapturesUnique
    /\ [][Recorded => RecordedInPlace]_vars

\* The capture of the first of two solves was recorded again, by the
\* reducer: it is still the first of the list.
C31_Witness ==
    /\ app.action.type = "ADD_SPLIT_CAPTURE"
    /\ Len(app.splits) = 2
    /\ app.splits[1].solveId = app.action.solveId
    /\ Len(app.splits[1].phases) = 2

\* The result the engine holds after applyManualPenalty with the penalty of
\* the last action, for the engine state the solve was added with.
EngineResultFor(solve) ==
    Val(applyManualPenalty(Val(app.engine[solve.id]),
                           app.action.penalty).result)

\* C32: UPDATE_SOLVE_PENALTY leaves the solve with the penalty and the
\* finalDurationMs the engine's applyManualPenalty yields: the penalty stored
\* is the dominance combination of the automatic inspection penalty and the
\* manual penalty chosen, so choosing None for a solve whose inspection
\* penalty was Plus2 or DNF does not remove that penalty.
C32_UpdateAgreesWithEngine ==
    app.action.type = "UPDATE_SOLVE_PENALTY" =>
        \A i \in 1 .. Len(app.solves) :
            LET solve == app.solves[i]
            IN (/\ solve.id = app.action.solveId
                /\ ~IsNullish(app.engine[solve.id]))
               => /\ solve.timing.penalty = EngineResultFor(solve).penalty
                  /\ solve.timing.finalDurationMs =
                         EngineResultFor(solve).finalDurationMs

\* The final duration of the timing is the one its penalty stands for.
TimingConsistent(timing) ==
    /\ IsNullish(timing.finalDurationMs) <=> timing.penalty = PenaltyDNF
    /\ timing.finalDurationMs = Some(timing.rawDurationMs + PLUS2_MS)
           <=> timing.penalty = PenaltyPlus2
    /\ timing.finalDurationMs = Some(timing.rawDurationMs)
           <=> timing.penalty = PenaltyNone

TimingsConsistent ==
    \A i \in 1 .. Len(app.solves) : TimingConsistent(app.solves[i].timing)

\* The step dispatched UPDATE_SOLVE_PENALTY.
PenaltyUpdated == app'.action.type = "UPDATE_SOLVE_PENALTY"

\* Only the penalty and the final duration of the solve with the id of the
\* action differ from what they were.
OnlyPenaltyOfThatSolveChanged ==
    /\ Len(app'.solves) = Len(app.solves)
    /\ \A i \in 1 .. Len(app.solves) :
          IF app.solves[i].id = app'.action.solveId
          THEN app'.solves[i] =
                   [app.solves[i] EXCEPT
                       !.timing.penalty = app'.action.penalty,
                       !.timing.finalDurationMs =
                           app'.solves[i].timing.finalDurationMs]
          ELSE app'.solves[i] = app.solves[i]

\* C36: after any sequence of ADD_SOLVE with results of the engine,
\* ADD_SOLVES_BATCH with imported solves, UPDATE_SOLVE_PENALTY and
\* DELETE_SOLVE every solve has finalDurationMs null exactly when its
\* penalty is DNF, rawDurationMs + 2000 exactly when it is Plus2 and
\* rawDurationMs exactly when it is None; UPDATE_SOLVE_PENALTY changes only
\* the penalty and finalDurationMs of the solve with the given id and leaves
\* its startTs, endTs and rawDurationMs and every other solve unchanged.
C36_HistoryTimingsConsistent ==
    /\ []TimingsConsistent
    /\ [][PenaltyUpdated => OnlyPenaltyOfThatSolveChanged]_vars

\* The penalty of the first of two solves, an imported one that had none,
\* was set to +2.
C36_Witness ==
    /\ app.action.type = "UPDATE_SOLVE_PENALTY"
    /\ app.action.penalty = PenaltyPlus2
    /\ Len(app.solves) = 2
    /\ app.solves[1].id = app.action.solveId
    /\ IsNullish(app.engine[app.solves[1].id])
    /\ app.solves[1].timing.finalDurationMs = Some(1000 + PLUS2_MS)
    /\ app.solves[2].timing.penalty = PenaltyDNF

\* Every capture belongs to a solve of the list.
NoOrphanCaptures ==
    \A i \in 1 .. Len(app.splits) : app.splits[i].solveId \in SolveIds(app)

\* The step dispatched DELETE_SOLVE.
SolveDeleted == app'.action.type = "DELETE_SOLVE"

\* The solve of the action and its capture are gone, the other solves and
\* captures are what they were, in the order they had.
DeletedTogether ==
    LET solveId == app'.action.solveId
    IN /\ app'.solves = SelectSeq(app.solves, LAMBDA x : x.id # solveId)
       /\ app'.splits = SelectSeq(app.splits,
                                  LAMBDA c : c.solveId # solveId)
       /\ solveId \notin SolveIds(app')
       /\ CapturesOf(app'.splits, solveId) = {}

\* C40: starting with every capture belonging to a solve, after any
\* sequence of ADD_SOLVE, ADD_SPLIT_CAPTURE for a solve of the list,
\* UPDATE_SOLVE_PENALTY and DELETE_SOLVE every capture refers to a solve of
\* state.solves; DELETE_SOLVE removes the solve and its capture together and
\* leaves all other solves and captures unchanged.
C40_NoOrphanCaptures ==
    /\ []NoOrphanCaptures
    /\ [][SolveDeleted => DeletedTogether]_vars

\* The first of two solves was deleted; the second solve and its capture
\* are left.
C40_Witness ==
    /\ app.action.type = "DELETE_SOLVE"
    /\ app.action.solveId = 1
    /\ Len(app.engine) = 2
    /\ Len(app.solves) = 1
    /\ Len(app.splits) = 1
    /\ app.splits[1].solveId = 2

====
